---- MODULE Spec2Model ----
(***************************************************************************)
(* Room coordination of the SyncStream server: the in-memory room registry *)
(* (server/state.js) and the Socket.IO event handlers of server.js that    *)
(* admit, remove and promote participants and relay the leader's playback  *)
(* state.  One action per event handler; the registry functions are        *)
(* operators on the registry map.                                          *)
(***************************************************************************)
EXTENDS Integers, FiniteSets, Sequences, TLC

\* ------------------------------------------------------------------ universe

\* Connection ids (socket.id) in the order the connections are made, room ids,
\* and the display name each client sends.
SocketIds == {"s1", "s2", "s3"}
Rank(s) == CASE s = "s1" -> 1 [] s = "s2" -> 2 [] OTHER -> 3
RoomIds == {"R1"}
\* A second room id, named only where a claim is about two rooms.
AllRoomIds == RoomIds \cup {"R2"}
NameOf(s) == CASE s = "s1" -> "ann" [] s = "s2" -> "bob" [] OTHER -> "cyd"
\* Share-token strings a client may send.
Tokens == {"tokA"}
\* A property name every plain JavaScript object inherits from
\* Object.prototype: obj["constructor"] is a function, hence truthy, although
\* "constructor" is no own key of obj.  Clients choose the strings they send.
ProtoKey == "constructor"
\* JavaScript null (leaderId, mediaKind, mediaRef) and an absent argument.
Null == "null"
NoArg == "undefined"

\* 24 hours in milliseconds, the lifetime of a share token.
TokenTTL == 86400000

\* How far the server clock is followed: Date.now() is counted in ms from the
\* server's start; it jumps by TokenTTL - 1 ms (TickJump), to the last
\* millisecond of a token made at the start, and then advances by 1 ms (Tick).
MaxSmallSteps == 1
\* Cap on the entries of one room's pendingRequests.
MaxPending == 1

\* Payloads the leader's client sends: heartbeats and control messages.
Heartbeats ==
  {[mediaTime |-> 42, isPlaying |-> TRUE, mediaKind |-> "youtube", mediaRef |-> "vid1"],
   [mediaTime |-> 0, isPlaying |-> FALSE, mediaKind |-> Null, mediaRef |-> Null]}
ControlMsgs ==
  {[type |-> "PLAY"], [type |-> "PAUSE"], [type |-> "SEEK"],
   [type |-> "SEEK", toTime |-> 42]}

VARIABLES
  rooms,         \* state.js `rooms`: room id -> room object (own keys only)
  sockets,       \* io.sockets.sockets: connected socket id -> socket object
  closed,        \* socket ids whose connection has ended (ids are never reused)
  adapterRooms,  \* Socket.IO channel of each room id: the sockets that joined it
  now,           \* Date.now()
  ev,            \* the event the last step handled
  out,           \* the messages and acknowledgments the last step delivered
  client         \* socket id -> the browser at the other end of the connection

vars == <<rooms, sockets, closed, adapterRooms, now, ev, out, client>>

\* ---------------------------------------------------------- object helpers

\* Own-property test, assignment and `delete` on an object or record.
Has(o, k) == k \in DOMAIN o
Put(o, k, v) == [x \in (DOMAIN o) \cup {k} |-> IF x = k THEN v ELSE o[x]]
Del(o, k) == [x \in (DOMAIN o) \ {k} |-> o[x]]
EmptyObj == << >>

\* obj[k] is truthy: k is an own key (all stored values are objects) or a
\* property inherited from Object.prototype.
Truthy(o, k) == Has(o, k) \/ k = ProtoKey

\* ------------------------------------------------------------ the registry

NewRoom ==
  [leaderId |-> Null, mediaKind |-> Null, mediaRef |-> Null,
   isPlaying |-> FALSE, leaderMediaTime |-> 0, leaderServerTs |-> 0,
   participants |-> EmptyObj]

createRoom(rs, roomId) ==
  IF Has(rs, roomId) THEN rs ELSE Put(rs, roomId, NewRoom)

\* Faulty variant: the room object stays registered, emptied of its leader
\* and participants, with its media state, share tokens and requests.
deleteRoom_KeepsContents(rs, roomId) ==
  IF Has(rs, roomId)
  THEN Put(rs, roomId, [rs[roomId] EXCEPT !.leaderId = Null, !.participants = EmptyObj])
  ELSE rs

\* Faulty variant: the room stays registered.
deleteRoom_Keeps(rs, roomId) == rs

deleteRoom(rs, roomId) == Del(rs, roomId)

\* Faulty variant: the first participant is not made the leader.
addParticipant_NoLeader(rs, roomId, socketId, name) ==
  LET rs1 == createRoom(rs, roomId)
  IN  Put(rs1, roomId, [rs1[roomId] EXCEPT !.participants = Put(@, socketId, name)])

addParticipant(rs, roomId, socketId, name) ==
  LET rs1 == createRoom(rs, roomId)
      room == rs1[roomId]
      room1 == [room EXCEPT !.participants = Put(@, socketId, name)]
      room2 == IF room1.leaderId = Null
               THEN [room1 EXCEPT !.leaderId = socketId]
               ELSE room1
  IN  Put(rs1, roomId, room2)

\* Faulty variant: the room is not deleted when its last participant goes.
removeParticipant_NoEmptyCheck(rs, roomId, socketId) ==
  IF ~Has(rs, roomId) THEN rs
  ELSE IF rs[roomId].leaderId = socketId THEN deleteRoom(rs, roomId)
  ELSE Put(rs, roomId, [rs[roomId] EXCEPT !.participants = Del(@, socketId)])

\* The result is the registry; the function's return value is the room
\* rs'[roomId] when roomId is still registered and null otherwise.
removeParticipant(rs, roomId, socketId) ==
  IF ~Has(rs, roomId) THEN rs
  ELSE LET room == rs[roomId]
           wasLeader == room.leaderId = socketId
           room1 == [room EXCEPT !.participants = Del(@, socketId)]
       IN  IF wasLeader THEN deleteRoom(rs, roomId)
           ELSE IF DOMAIN room1.participants = {} THEN deleteRoom(rs, roomId)
           ELSE Put(rs, roomId, room1)

\* getRoom(roomId) is rooms[roomId]: for a room id that is no own key of rooms
\* but names a property inherited from Object.prototype it is that property,
\* which is truthy and has no participants.
InheritedRoom(rs, roomId) == ~Has(rs, roomId) /\ roomId = ProtoKey

\* How a call of removeParticipant ends: with the room, with null, or with the
\* TypeError of `delete room.participants[socketId]` on an inherited property,
\* whose participants is undefined.
removeParticipantOutcome(rs, roomId, socketId) ==
  IF InheritedRoom(rs, roomId) THEN "TypeError"
  ELSE IF Has(removeParticipant(rs, roomId, socketId), roomId) THEN "room"
  ELSE "null"

\* promoteLeader returns the room iff the guard holds, null otherwise.
promoteLeaderOk(rs, roomId, newLeaderId) ==
  Has(rs, roomId) /\ Truthy(rs[roomId].participants, newLeaderId)

\* Faulty variant: a promotion also pauses the room.
promoteLeader_Pauses(rs, roomId, newLeaderId) ==
  IF promoteLeaderOk(rs, roomId, newLeaderId)
  THEN Put(rs, roomId, [rs[roomId] EXCEPT !.leaderId = newLeaderId, !.isPlaying = FALSE])
  ELSE rs

promoteLeader(rs, roomId, newLeaderId) ==
  IF promoteLeaderOk(rs, roomId, newLeaderId)
  THEN Put(rs, roomId, [rs[roomId] EXCEPT !.leaderId = newLeaderId])
  ELSE rs

\* ------------------------------------------------------------ the transport

\* socket.to(channel): the sockets of the channel except the sender;
\* io.to(channel): all of them.  Every socket is in the channel of its own id.
Channel(ch) ==
  IF ch \in AllRoomIds THEN adapterRooms[ch]
  ELSE IF ch \in DOMAIN sockets THEN {ch} ELSE {}

Emit(targets, type, data) ==
  {[to |-> t, type |-> type, data |-> data] : t \in targets}

\* The acknowledgment callback of one join_room call of socket s.
Callback(roomId, at) == [roomId |-> roomId, at |-> at]
Ack(s, cb, data) == {[to |-> s, type |-> "join_ack", callback |-> cb, data |-> data]}

RoomState(room) ==
  [mediaKind |-> room.mediaKind, mediaRef |-> room.mediaRef,
   isPlaying |-> room.isPlaying, leaderMediaTime |-> room.leaderMediaTime,
   leaderServerTs |-> room.leaderServerTs]

Joined(s, isLeader, room) ==
  [participantId |-> s, isLeader |-> isLeader, roomState |-> RoomState(room)]

ErrExpired == [error |-> "Share link has expired. Please request a new one from the room leader."]
ErrFailed == [error |-> "Failed to join room"]
\* Faulty variant: a rejection is reported as the generic join failure.
ErrRejected_Generic == ErrFailed
ErrRejected == [error |-> "Join request was rejected by the room leader"]

\* ------------------------------------------------------------ the browser

\* The `room` of the zustand store as created (socket.ts), positions in ms.
InitialRoom ==
  [roomId |-> Null, participantId |-> Null, participants |-> EmptyObj,
   leaderId |-> Null, isLeader |-> FALSE, mediaKind |-> Null, mediaRef |-> Null,
   isPlaying |-> FALSE, currentTime |-> 0]

\* One browser: the store's room, the SyncEngine's state, the promise and the
\* timer of its last joinRoom call, the messages its socket has received and
\* not yet handled, its media player, what the follower effect last ran for,
\* and how far its clock is behind the server's; probes holds the calls of
\* calculateServerOffset that await the server's answer.
InitialClient ==
  [room |-> InitialRoom,
   serverOffset |-> 0, driftHistory |-> << >>, probes |-> {},
   joins |-> EmptyObj,
   inbox |-> << >>,
   player |-> [ready |-> FALSE, currentTime |-> 0, state |-> "paused"],
   effectDeps |-> << >>,
   skew |-> 0]

\* ------------------------------------------------------------------- Init

Init ==
  /\ client = [s \in SocketIds |-> InitialClient]
  /\ rooms = EmptyObj
  /\ sockets = EmptyObj
  /\ closed = {}
  /\ adapterRooms = [r \in AllRoomIds |-> {}]
  /\ now = 1
  /\ ev = [type |-> "start"]
  /\ out = {}

\* io.on('connection'): a new socket with a fresh id.
Connect(s) ==
  /\ s \notin DOMAIN sockets /\ s \notin closed
  /\ \A x \in SocketIds : Rank(x) < Rank(s) => x \in DOMAIN sockets \cup closed
  /\ sockets' = Put(sockets, s, EmptyObj)
  /\ ev' = [type |-> "connection", socket |-> s]
  /\ out' = {}
  /\ UNCHANGED <<rooms, closed, adapterRooms, now>>

\* The server clock advances by d ms.
Advance(d) ==
  /\ now' = now + d
  /\ ev' = [type |-> "tick"]
  /\ out' = {}
  /\ UNCHANGED <<rooms, sockets, closed, adapterRooms>>

\* The clock runs to a horizon a few milliseconds past one token lifetime.
Horizon == TokenTTL + MaxSmallSteps

Tick ==
  /\ now >= TokenTTL - 1
  /\ now + 1 <= Horizon
  /\ Advance(1)

TickJump == now + (TokenTTL - 1) <= Horizon /\ Advance(TokenTTL - 1)

\* --------------------------------------------------------------- join_room

\* Faulty variant: the token is still honoured at the millisecond it expires.
TokenValid_Inclusive(room, shareToken, t) ==
  /\ Has(room.shareTokens, shareToken)
  /\ t <= room.shareTokens[shareToken].expiresAt

\* The share-token test of join_room: the token is an own key of shareTokens
\* and Date.now() < tokenData.expiresAt (for an inherited property expiresAt
\* is undefined and the comparison is false).
TokenValid(room, shareToken, t) ==
  /\ Has(room.shareTokens, shareToken)
  /\ t < room.shareTokens[shareToken].expiresAt

\* A share token was presented and room.shareTokens[shareToken] is truthy.
TokenPresented(room, shareToken) ==
  /\ shareToken # NoArg
  /\ Has(room, "shareTokens")
  /\ Truthy(room.shareTokens, shareToken)

RequestId(s, t) == <<s, t>>

\* socket.join(roomId); addParticipant; callback(...); participant_joined to
\* the other sockets of the channel.
JoinDirect(s, roomId, name, isLeaderAck) ==
  LET rs == addParticipant(rooms, roomId, s, name)
      room == rs[roomId]
      isLeader == IF isLeaderAck = "computed" THEN room.leaderId = s ELSE FALSE
  IN  /\ rooms' = rs
      /\ adapterRooms' = [adapterRooms EXCEPT ![roomId] = @ \cup {s}]
      /\ out' = Ack(s, Callback(roomId, now), Joined(s, isLeader, room))
                \cup Emit(adapterRooms'[roomId] \ {s}, "participant_joined",
                          [participantId |-> s, name |-> name,
                           participants |-> room.participants])
      /\ UNCHANGED sockets

JoinExpired(s, roomId, shareToken) ==
  /\ rooms' = [rooms EXCEPT ![roomId].shareTokens = Del(@, shareToken)]
  /\ out' = Ack(s, Callback(roomId, now), ErrExpired)
  /\ UNCHANGED <<sockets, adapterRooms>>

\* Faulty variant: a join without a token is admitted without approval.
JoinPending_Admits(s, roomId, name) == JoinDirect(s, roomId, name, "false")

JoinPending(s, roomId, name) ==
  LET room == rooms[roomId]
      requestId == RequestId(s, now)
      pending == IF Has(room, "pendingRequests") THEN room.pendingRequests ELSE EmptyObj
      pending1 == Put(pending, requestId,
                      [socketId |-> s, name |-> name, timestamp |-> now])
  IN  /\ Cardinality(DOMAIN pending1) <= MaxPending
      /\ rooms' = Put(rooms, roomId, Put(room, "pendingRequests", pending1))
      /\ out' = Emit(Channel(room.leaderId) \ {s}, "participant_join_request",
                     [requestId |-> requestId, participantName |-> name])
      /\ sockets' = Put(sockets, s, Put(sockets[s], "joinCallback", Callback(roomId, now)))
      /\ UNCHANGED adapterRooms

JoinRoom(s, roomId, name, shareToken) ==
  /\ Has(sockets, s)
  /\ ev' = [type |-> "join_room", socket |-> s, roomId |-> roomId,
            name |-> name, shareToken |-> shareToken]
  /\ IF Has(rooms, roomId) /\ rooms[roomId].leaderId # Null
     THEN IF TokenPresented(rooms[roomId], shareToken)
          THEN IF TokenValid(rooms[roomId], shareToken, now)
               THEN JoinDirect(s, roomId, name, "false")
               ELSE JoinExpired(s, roomId, shareToken)
          ELSE JoinPending(s, roomId, name)
     ELSE JoinDirect(s, roomId, name, "computed")
  /\ UNCHANGED <<closed, now>>

\* ------------------------------------------------- leader-only playback

\* Faulty variant: any participant of the room passes the guard.
LeaderGuard_AnyParticipant(s, roomId) ==
  Has(rooms, roomId) /\ Has(rooms[roomId].participants, s)

\* The guard of every leader-only handler: the room exists and
\* room.leaderId === socket.id.
LeaderGuard(s, roomId) == Has(rooms, roomId) /\ rooms[roomId].leaderId = s

Dropped ==
  /\ out' = {}
  /\ UNCHANGED <<rooms, sockets, closed, adapterRooms, now>>

\* Faulty variant: the heartbeat does not stamp leaderServerTs.
LeaderStateUpdate_NoStamp(room, mediaTime, isPlaying, mediaKind, mediaRef, t) ==
  [room EXCEPT !.leaderMediaTime = mediaTime,
               !.isPlaying = isPlaying,
               !.mediaKind = IF mediaKind # Null THEN mediaKind ELSE @,
               !.mediaRef = IF mediaRef # Null THEN mediaRef ELSE @]

LeaderStateUpdate(room, mediaTime, isPlaying, mediaKind, mediaRef, t) ==
  [room EXCEPT !.leaderMediaTime = mediaTime,
               !.leaderServerTs = t,
               !.isPlaying = isPlaying,
               !.mediaKind = IF mediaKind # Null THEN mediaKind ELSE @,
               !.mediaRef = IF mediaRef # Null THEN mediaRef ELSE @]

LeaderState(s, roomId, mediaTime, isPlaying, mediaKind, mediaRef) ==
  /\ Has(sockets, s)
  /\ ev' = [type |-> "leader_state", socket |-> s, roomId |-> roomId,
            mediaTime |-> mediaTime, isPlaying |-> isPlaying,
            mediaKind |-> mediaKind, mediaRef |-> mediaRef]
  /\ IF ~LeaderGuard(s, roomId) THEN Dropped
     ELSE LET room == LeaderStateUpdate(rooms[roomId], mediaTime, isPlaying,
                                        mediaKind, mediaRef, now)
          IN  /\ rooms' = Put(rooms, roomId, room)
              /\ out' = Emit(adapterRooms[roomId] \ {s}, "sync_state",
                             [leaderMediaTime |-> mediaTime,
                              leaderServerTs |-> room.leaderServerTs,
                              isPlaying |-> isPlaying,
                              mediaKind |-> room.mediaKind,
                              mediaRef |-> room.mediaRef])
              /\ UNCHANGED <<sockets, closed, adapterRooms, now>>

\* Faulty variant: a SEEK without a numeric toTime still stamps leaderServerTs.
ControlUpdate_SeekStamps(room, msg, t) ==
  CASE msg.type = "PLAY" -> [room EXCEPT !.isPlaying = TRUE, !.leaderServerTs = t]
    [] msg.type = "PAUSE" -> [room EXCEPT !.isPlaying = FALSE, !.leaderServerTs = t]
    [] msg.type = "SEEK" -> IF Has(msg, "toTime")
                            THEN [room EXCEPT !.leaderMediaTime = msg.toTime,
                                              !.leaderServerTs = t]
                            ELSE [room EXCEPT !.leaderServerTs = t]
    [] OTHER -> room

\* msg is the control message: [type, toTime] with toTime a number, or
\* [type] when toTime is absent (typeof toTime !== 'number').
ControlUpdate(room, msg, t) ==
  CASE msg.type = "PLAY" -> [room EXCEPT !.isPlaying = TRUE, !.leaderServerTs = t]
    [] msg.type = "PAUSE" -> [room EXCEPT !.isPlaying = FALSE, !.leaderServerTs = t]
    [] msg.type = "SEEK" -> IF Has(msg, "toTime")
                            THEN [room EXCEPT !.leaderMediaTime = msg.toTime,
                                              !.leaderServerTs = t]
                            ELSE room
    [] OTHER -> room

Control(s, roomId, msg) ==
  /\ Has(sockets, s)
  /\ ev' = [type |-> "control", socket |-> s, roomId |-> roomId, msg |-> msg]
  /\ IF ~LeaderGuard(s, roomId) THEN Dropped
     ELSE LET room == ControlUpdate(rooms[roomId], msg, now)
          IN  /\ rooms' = Put(rooms, roomId, room)
              /\ out' = Emit(adapterRooms[roomId], "control_update",
                             Put(Put(Put(msg, "leaderMediaTime", room.leaderMediaTime),
                                     "leaderServerTs", room.leaderServerTs),
                                 "isPlaying", room.isPlaying))
              /\ UNCHANGED <<sockets, closed, adapterRooms, now>>

MediaCleared(s, roomId) ==
  /\ Has(sockets, s)
  /\ ev' = [type |-> "media_cleared", socket |-> s, roomId |-> roomId]
  /\ IF ~LeaderGuard(s, roomId) THEN Dropped
     ELSE /\ rooms' = Put(rooms, roomId,
                          [rooms[roomId] EXCEPT !.mediaKind = Null, !.mediaRef = Null,
                                                !.isPlaying = FALSE,
                                                !.leaderMediaTime = 0,
                                                !.leaderServerTs = now])
          /\ out' = Emit(adapterRooms[roomId], "media_cleared", EmptyObj)
          /\ UNCHANGED <<sockets, closed, adapterRooms, now>>

\* ------------------------------------------------------ leader-only membership

PromoteLeader(s, roomId, participantId) ==
  /\ Has(sockets, s)
  /\ ev' = [type |-> "promote_leader", socket |-> s, roomId |-> roomId,
            participantId |-> participantId]
  /\ IF ~LeaderGuard(s, roomId) THEN Dropped
     ELSE /\ rooms' = promoteLeader(rooms, roomId, participantId)
          /\ out' = IF promoteLeaderOk(rooms, roomId, participantId)
                    THEN Emit(adapterRooms[roomId], "leader_changed",
                              [newLeaderId |-> participantId,
                               participants |-> rooms'[roomId].participants])
                    ELSE {}
          /\ UNCHANGED <<sockets, closed, adapterRooms, now>>

\* room.participants[participantId]?.name || 'Unknown'; the inherited
\* constructor property is the function Object, whose name is "Object".
KickedName(room, participantId) ==
  IF Has(room.participants, participantId) THEN room.participants[participantId]
  ELSE IF participantId = ProtoKey THEN "Object" ELSE "Unknown"

KickParticipant(s, roomId, participantId) ==
  /\ Has(sockets, s)
  /\ ev' = [type |-> "kick_participant", socket |-> s, roomId |-> roomId,
            participantId |-> participantId]
  /\ IF ~LeaderGuard(s, roomId) \/ participantId = s THEN Dropped
     ELSE LET room == rooms[roomId]
              participantName == KickedName(room, participantId)
              connected == Has(sockets, participantId)
              rs == removeParticipant(rooms, roomId, participantId)
          IN  /\ adapterRooms' = IF connected
                                 THEN [adapterRooms EXCEPT ![roomId] = @ \ {participantId}]
                                 ELSE adapterRooms
              /\ rooms' = rs
              /\ out' = (IF connected
                         THEN Emit({participantId}, "participant_kicked",
                                   [reason |-> "Removed by room leader"])
                         ELSE {})
                        \cup
                        (IF Has(rs, roomId)
                         THEN Emit(adapterRooms'[roomId] \ {s}, "participant_left",
                                   [participantId |-> participantId,
                                    participants |-> rs[roomId].participants,
                                    newLeaderId |-> rs[roomId].leaderId,
                                    reason |-> "kicked",
                                    kickedParticipantName |-> participantName])
                              \cup
                              Emit(adapterRooms'[roomId] \ {s},
                                   "participant_kicked_notification",
                                   [participantId |-> participantId,
                                    participantName |-> participantName,
                                    kickedBy |-> "leader"])
                         ELSE {})
              /\ UNCHANGED <<sockets, closed, now>>

\* Faulty variant: the token expires one millisecond early.
NewToken_Short(s, t) ==
  [createdAt |-> t, createdBy |-> s, expiresAt |-> t + TokenTTL - 1]

NewToken(s, t) ==
  [createdAt |-> t, createdBy |-> s, expiresAt |-> t + TokenTTL]

CreateShareToken(s, roomId, shareToken) ==
  /\ Has(sockets, s)
  /\ ev' = [type |-> "create_share_token", socket |-> s, roomId |-> roomId,
            shareToken |-> shareToken]
  /\ IF ~LeaderGuard(s, roomId) THEN Dropped
     ELSE LET room == rooms[roomId]
              tokens == IF Has(room, "shareTokens") THEN room.shareTokens ELSE EmptyObj
          IN  /\ rooms' = Put(rooms, roomId,
                              Put(room, "shareTokens",
                                  Put(tokens, shareToken, NewToken(s, now))))
              /\ out' = {}
              /\ UNCHANGED <<sockets, closed, adapterRooms, now>>

\* The guard of approve_participant and reject_participant.
DecisionGuard(s, roomId) ==
  LeaderGuard(s, roomId) /\ Has(rooms[roomId], "pendingRequests")

\* io.sockets.sockets.get(request.socketId) exists and has a joinCallback.
CanAcknowledge(socketId) ==
  Has(sockets, socketId) /\ Has(sockets[socketId], "joinCallback")

\* Faulty variant: the decided request stays in pendingRequests.
DropRequest_Keeps(rs, roomId, requestId) == rs

DropRequest(rs, roomId, requestId) ==
  Put(rs, roomId, [rs[roomId] EXCEPT !.pendingRequests = Del(@, requestId)])

ApproveParticipant(s, roomId, requestId) ==
  /\ Has(sockets, s)
  /\ ev' = [type |-> "approve_participant", socket |-> s, roomId |-> roomId,
            requestId |-> requestId]
  /\ IF ~DecisionGuard(s, roomId) THEN Dropped
     ELSE IF ~Has(rooms[roomId].pendingRequests, requestId) THEN Dropped
     ELSE LET request == rooms[roomId].pendingRequests[requestId]
              p == request.socketId
          IN  IF ~CanAcknowledge(p)
              THEN /\ rooms' = DropRequest(rooms, roomId, requestId)
                   /\ out' = {}
                   /\ UNCHANGED <<sockets, closed, adapterRooms, now>>
              ELSE LET rs == addParticipant(rooms, roomId, p, request.name)
                       room == rs[roomId]
                   IN  /\ adapterRooms' = [adapterRooms EXCEPT ![roomId] = @ \cup {p}]
                       /\ out' = Ack(p, sockets[p].joinCallback, Joined(p, FALSE, room))
                                 \cup Emit(adapterRooms'[roomId] \ {p}, "participant_joined",
                                           [participantId |-> p, name |-> request.name,
                                            participants |-> room.participants])
                       /\ rooms' = DropRequest(rs, roomId, requestId)
                       /\ sockets' = Put(sockets, p, Del(sockets[p], "joinCallback"))
                       /\ UNCHANGED <<closed, now>>

RejectParticipant(s, roomId, requestId) ==
  /\ Has(sockets, s)
  /\ ev' = [type |-> "reject_participant", socket |-> s, roomId |-> roomId,
            requestId |-> requestId]
  /\ IF ~DecisionGuard(s, roomId) THEN Dropped
     ELSE IF ~Has(rooms[roomId].pendingRequests, requestId) THEN Dropped
     ELSE LET request == rooms[roomId].pendingRequests[requestId]
              p == request.socketId
          IN  /\ IF CanAcknowledge(p)
                 THEN /\ out' = Ack(p, sockets[p].joinCallback, ErrRejected)
                      /\ sockets' = Put(sockets, p, Del(sockets[p], "joinCallback"))
                 ELSE /\ out' = {}
                      /\ UNCHANGED sockets
              /\ rooms' = DropRequest(rooms, roomId, requestId)
              /\ UNCHANGED <<closed, adapterRooms, now>>

LeaderLeaveRoom(s, roomId) ==
  /\ Has(sockets, s)
  /\ ev' = [type |-> "leader_leave_room", socket |-> s, roomId |-> roomId]
  /\ IF ~LeaderGuard(s, roomId) THEN Dropped
     ELSE /\ out' = Emit(adapterRooms[roomId], "room_closed",
                         [reason |-> "Leader left the room"])
          /\ rooms' = deleteRoom(rooms, roomId)
          /\ adapterRooms' = [adapterRooms EXCEPT ![roomId] = {}]
          /\ UNCHANGED <<sockets, closed, now>>

\* ------------------------------------------------------------- any socket

\* getRoom(roomId) is rooms[roomId]: for a room id that is no own key but a
\* name inherited from Object.prototype it is a function, which passes the
\* `if (!room) return` and has none of the fields read from it (they are
\* undefined and the payload is sent without them).
SnapshotRequest(s, roomId) ==
  /\ Has(sockets, s)
  /\ ev' = [type |-> "snapshot_request", socket |-> s, roomId |-> roomId]
  /\ out' = IF InheritedRoom(rooms, roomId)
            THEN Emit({s}, "snapshot_response", EmptyObj)
            ELSE IF ~Has(rooms, roomId) THEN {}
            ELSE Emit({s}, "snapshot_response",
                      [mediaKind |-> rooms[roomId].mediaKind,
                       mediaRef |-> rooms[roomId].mediaRef,
                       isPlaying |-> rooms[roomId].isPlaying,
                       leaderMediaTime |-> rooms[roomId].leaderMediaTime,
                       leaderServerTs |-> rooms[roomId].leaderServerTs,
                       leaderId |-> rooms[roomId].leaderId,
                       participants |-> rooms[roomId].participants])
  /\ UNCHANGED <<rooms, sockets, closed, adapterRooms, now>>

\* -------------------------------------------------------------- disconnect

\* The rooms the 'disconnect' handler finds in socket.rooms (the socket's own
\* channel apart).  The handler is written for the channels the socket has
\* joined; Socket.IO makes the socket leave its channels before it emits
\* 'disconnect' (they are still there in 'disconnecting'), and then the handler
\* finds none.  Both are followed.
RoomsSeenOnDisconnect(s) ==
  {{r \in AllRoomIds : s \in adapterRooms[r]}, {}}

\* One pass of the handler's loop, for room id r.
DisconnectNotices(s, r) ==
  LET wasLeader == Has(rooms, r) /\ rooms[r].leaderId = s
      rs == removeParticipant(rooms, r, s)
      others == adapterRooms[r] \ {s}
  IN  IF ~Has(rs, r)
      THEN IF wasLeader
           THEN Emit(others, "room_closed", [reason |-> "Leader left the room"])
           ELSE {}
      ELSE Emit(others, "participant_left",
                [participantId |-> s, participants |-> rs[r].participants,
                 newLeaderId |-> rs[r].leaderId])
           \cup (IF rs[r].leaderId # Null /\ rs[r].leaderId # s
                 THEN Emit(others, "leader_changed",
                           [newLeaderId |-> rs[r].leaderId,
                            participants |-> rs[r].participants])
                 ELSE {})

\* Faulty variant: the socket object of the ended connection, with a
\* joinCallback it may hold, stays in io.sockets.sockets.
Disconnect_KeepsSocket(s) ==
  /\ Has(sockets, s)
  /\ s \notin closed
  /\ \E seen \in RoomsSeenOnDisconnect(s) :
       LET after(r) == IF r \in seen THEN removeParticipant(rooms, r, s) ELSE rooms
       IN  /\ ev' = [type |-> "disconnect", socket |-> s, rooms |-> seen]
           /\ rooms' = [r \in {x \in DOMAIN rooms : Has(after(x), x)} |-> after(r)[r]]
           /\ out' = UNION {DisconnectNotices(s, r) : r \in seen}
  /\ sockets' = sockets
  /\ closed' = closed \cup {s}
  /\ adapterRooms' = [r \in AllRoomIds |-> adapterRooms[r] \ {s}]
  /\ UNCHANGED now

Disconnect(s) ==
  /\ Has(sockets, s)
  /\ \E seen \in RoomsSeenOnDisconnect(s) :
       LET after(r) == IF r \in seen THEN removeParticipant(rooms, r, s) ELSE rooms
       IN  /\ ev' = [type |-> "disconnect", socket |-> s, rooms |-> seen]
           /\ rooms' = [r \in {x \in DOMAIN rooms : Has(after(x), x)} |-> after(r)[r]]
           /\ out' = UNION {DisconnectNotices(s, r) : r \in seen}
  /\ sockets' = Del(sockets, s)
  /\ closed' = closed \cup {s}
  /\ adapterRooms' = [r \in AllRoomIds |-> adapterRooms[r] \ {s}]
  /\ UNCHANGED now

\* ---------------------------------------------------------- the sync engine

\* Media positions on the client are kept here in milliseconds (the code has
\* them in seconds, as floating point): a leaderMediaTime of the server, in
\* seconds, is 1000 * leaderMediaTime ms.
Ms(seconds) == 1000 * seconds

\* SyncEngine.getServerTime: the local clock plus the stored offset.
getServerTime(localTime, serverOffset) == localTime + serverOffset

\* Faulty variant: the stamp of the leader's state is not subtracted.
calculateCurrentMediaTime_NoStamp(leaderMediaTimeMs, leaderServerTs, isPlaying, localNow, serverOffset) ==
  IF ~isPlaying THEN leaderMediaTimeMs
  ELSE leaderMediaTimeMs + getServerTime(localNow, serverOffset)

\* SyncEngine.calculateCurrentMediaTime at local time localNow, in ms.
calculateCurrentMediaTime(leaderMediaTimeMs, leaderServerTs, isPlaying, localNow, serverOffset) ==
  IF ~isPlaying THEN leaderMediaTimeMs
  ELSE leaderMediaTimeMs + (getServerTime(localNow, serverOffset) - leaderServerTs)

\* -------------------------------------------------- the client's handlers

\* joinRoom gives up waiting for the server's answer after 30 seconds.
JoinTimeoutMs == 30000
\* Cap on the messages one browser has received and not yet handled.
MaxInbox == 1
\* How many timeouts the clock of SpecClient is followed for.
MaxWaits == 1

\* The order in which one handler of the server emits its messages.
SendRank(type) ==
  CASE type \in {"participant_left", "participant_joined"} -> 2
    [] type \in {"leader_changed", "participant_kicked_notification"} -> 3
    [] OTHER -> 1

RECURSIVE InOrder(_)
InOrder(msgs) ==
  IF msgs = {} THEN << >>
  ELSE LET m == CHOOSE x \in msgs :
                  \A y \in msgs : SendRank(x.type) <= SendRank(y.type)
       IN  <<m>> \o InOrder(msgs \ {m})

\* The messages msgs reach the sockets they are addressed to.
Deliver(c, msgs) ==
  [s \in DOMAIN c |->
     [c[s] EXCEPT !.inbox = @ \o InOrder({m \in msgs : m.to = s})]]

InboxesBounded == \A s \in DOMAIN client' : Len(client'[s].inbox) <= MaxInbox

\* Date.now() in the browser c.
LocalNow(c) == now - c.skew

\* resolve(v) of a promise: only the first call settles it.
Resolve(promise, v) == IF promise = "pending" THEN v ELSE promise

\* The callback that joinRoom passes to emit('join_room'), for the call cb,
\* invoked with the server's response m.data.
OnJoinAck(c, cb, data) ==
  LET call == IF Has(c.joins, cb) THEN c.joins[cb]
              ELSE [promise |-> "pending", timer |-> 0]
  IN  IF Has(data, "error")
      THEN [c EXCEPT !.joins = Put(@, cb, [promise |-> Resolve(call.promise, "false"),
                                           timer |-> 0])]
      ELSE [c EXCEPT
              !.joins = Put(@, cb, [promise |-> Resolve(call.promise, "true"),
                                    timer |-> 0]),
              !.room = [@ EXCEPT
                          !.roomId = cb.roomId,
                          !.participantId = data.participantId,
                          !.isLeader = data.isLeader,
                          !.leaderId = IF data.isLeader THEN data.participantId ELSE @,
                          !.mediaKind = data.roomState.mediaKind,
                          !.mediaRef = data.roomState.mediaRef,
                          !.isPlaying = data.roomState.isPlaying,
                          !.currentTime = Ms(data.roomState.leaderMediaTime)]]

OnParticipantJoined(c, data) ==
  [c EXCEPT !.room.participants = data.participants]

OnParticipantLeft(c, data) ==
  [c EXCEPT !.room = [@ EXCEPT !.participants = data.participants,
                               !.leaderId = data.newLeaderId,
                               !.isLeader = (data.newLeaderId = c.room.participantId)]]

OnLeaderChanged(c, data) ==
  [c EXCEPT !.room = [@ EXCEPT !.leaderId = data.newLeaderId,
                               !.isLeader = (data.newLeaderId = c.room.participantId),
                               !.participants = data.participants]]

\* room_closed and participant_kicked put the room back as it was created.
OnRoomClosed(c) == [c EXCEPT !.room = InitialRoom]

OnSyncState(c, data) ==
  LET currentTime == calculateCurrentMediaTime(Ms(data.leaderMediaTime),
                                               data.leaderServerTs, data.isPlaying,
                                               LocalNow(c), c.serverOffset)
  IN  [c EXCEPT !.room = [@ EXCEPT
                            !.mediaKind = IF data.mediaKind # Null
                                          THEN data.mediaKind ELSE @,
                            !.mediaRef = IF data.mediaRef # Null
                                         THEN data.mediaRef ELSE @,
                            !.isPlaying = data.isPlaying,
                            !.currentTime = currentTime]]

OnControlUpdate(c, data) ==
  IF data.type = "SEEK" /\ Has(data, "toTime")
  THEN [c EXCEPT !.driftHistory = << >>,
                 !.room = [@ EXCEPT !.isPlaying = data.isPlaying,
                                    !.currentTime = Ms(data.toTime)]]
  ELSE [c EXCEPT !.room = [@ EXCEPT
                             !.isPlaying = data.isPlaying,
                             !.currentTime =
                               calculateCurrentMediaTime(Ms(data.leaderMediaTime),
                                                         data.leaderServerTs,
                                                         data.isPlaying,
                                                         LocalNow(c), c.serverOffset)]]

\* The answer to a snapshot_request for the room the browser has joined.
OnSnapshotResponse(c, data) ==
  [c EXCEPT !.room = [@ EXCEPT
                        !.mediaKind = data.mediaKind,
                        !.mediaRef = data.mediaRef,
                        !.isPlaying = data.isPlaying,
                        !.currentTime =
                          calculateCurrentMediaTime(Ms(data.leaderMediaTime),
                                                    data.leaderServerTs,
                                                    data.isPlaying,
                                                    LocalNow(c), c.serverOffset),
                        !.leaderId = data.leaderId,
                        !.isLeader = (data.leaderId = c.room.participantId),
                        !.participants = data.participants]]

\* The browser's handler for message m (messages without a handler that
\* touches the store, such as participant_kicked_notification, change nothing).
Handle(c, m) ==
  CASE m.type = "join_ack" -> OnJoinAck(c, m.callback, m.data)
    [] m.type = "participant_joined" -> OnParticipantJoined(c, m.data)
    [] m.type = "participant_left" -> OnParticipantLeft(c, m.data)
    [] m.type = "leader_changed" -> OnLeaderChanged(c, m.data)
    [] m.type \in {"room_closed", "participant_kicked"} -> OnRoomClosed(c)
    [] m.type = "sync_state" -> OnSyncState(c, m.data)
    [] m.type = "control_update" -> OnControlUpdate(c, m.data)
    [] m.type = "snapshot_response" -> OnSnapshotResponse(c, m.data)
    [] OTHER -> c

\* What stays of the store when the socket reports 'disconnect'.
OnDisconnect(c) ==
  [c EXCEPT !.inbox = << >>,
            !.room = [@ EXCEPT !.roomId = Null, !.participantId = Null,
                               !.participants = EmptyObj, !.leaderId = Null,
                               !.isLeader = FALSE]]

\* A step of the browser alone: nothing reaches the server.
Local(s, c, event) ==
  /\ client' = [client EXCEPT ![s] = c]
  /\ ev' = event
  /\ out' = {}
  /\ UNCHANGED <<rooms, sockets, closed, adapterRooms, now>>

\* The browser of socket s handles the oldest message it has received.  The
\* leader answers a participant_join_request in a confirm() dialog and sends
\* approve_participant or reject_participant accordingly.
Receive(s) ==
  /\ Has(sockets, s)
  /\ client[s].inbox # << >>
  /\ LET m == Head(client[s].inbox)
         c == [client[s] EXCEPT !.inbox = Tail(@)]
         popped == [client EXCEPT ![s] = c]
     IN  IF m.type = "participant_join_request" /\ c.room.isLeader
            /\ c.room.roomId # Null
         THEN /\ \/ ApproveParticipant(s, c.room.roomId, m.data.requestId)
                 \/ RejectParticipant(s, c.room.roomId, m.data.requestId)
              /\ client' = Deliver(popped, out')
              /\ InboxesBounded
         ELSE Local(s, Handle(c, m), [type |-> "receive", socket |-> s, msg |-> m])

\* joinRoom(roomId, name) from the join form, which is shown while the store
\* has no room and no join is being awaited.
ClientJoinRoom(s, roomId) ==
  LET cb == Callback(roomId, now)
  IN  /\ Has(sockets, s)
      /\ client[s].room.roomId = Null
      /\ \A k \in DOMAIN client[s].joins : client[s].joins[k].promise # "pending"
      /\ ~Has(client[s].joins, cb)
      /\ JoinRoom(s, roomId, NameOf(s), NoArg)
      /\ client' = Deliver([client EXCEPT ![s].joins =
                              Put(@, cb, [promise |-> "pending",
                                          timer |-> now + JoinTimeoutMs])],
                           out')
      /\ InboxesBounded

\* The timer of the joinRoom call cb fires: resolve(false).
JoinTimeout(s, cb) ==
  /\ Has(client[s].joins, cb)
  /\ client[s].joins[cb].timer # 0
  /\ now >= client[s].joins[cb].timer
  /\ Local(s, [client[s] EXCEPT !.joins[cb] = [promise |-> Resolve(@.promise, "false"),
                                               timer |-> 0]],
           [type |-> "join_timeout", socket |-> s, callback |-> cb])

\* Faulty variant: the heartbeat is sent whatever the local role.
CanSendAsLeader_AnyRole(c) == c.room.roomId # Null

\* The guard of sendLeaderState, play, pause, seek and promoteLeader (the
\* socket apart): the store says this browser leads a room.
CanSendAsLeader(c) == c.room.isLeader /\ c.room.roomId # Null

\* sendLeaderState(mediaTime, isPlaying), as the leader's interval calls it
\* every 500 ms with the readings of its player.
ClientSendLeaderState(s, mediaTime, isPlaying) ==
  /\ Has(sockets, s)
  /\ IF CanSendAsLeader(client[s])
     THEN /\ LeaderState(s, client[s].room.roomId, mediaTime, isPlaying,
                         client[s].room.mediaKind, client[s].room.mediaRef)
          /\ client' = Deliver(client, out')
          /\ InboxesBounded
     ELSE Local(s, client[s], [type |-> "sendLeaderState", socket |-> s,
                               sent |-> FALSE])

\* play(), pause() and seek(time): seek also empties the drift history.
ClientControl(s, msg) ==
  /\ Has(sockets, s)
  /\ CanSendAsLeader(client[s])
  /\ Control(s, client[s].room.roomId, msg)
  /\ client' = Deliver([client EXCEPT ![s].driftHistory =
                          IF msg.type = "SEEK" THEN << >> ELSE @], out')
  /\ InboxesBounded

\* setMedia(kind, ref): the store and the drift history only.
ClientSetMedia(s, kind, ref) ==
  /\ Has(sockets, s)
  /\ Local(s, [client[s] EXCEPT !.driftHistory = << >>,
                                !.room = [@ EXCEPT !.mediaKind = kind,
                                                   !.mediaRef = ref,
                                                   !.currentTime = 0,
                                                   !.isPlaying = FALSE]],
           [type |-> "setMedia", socket |-> s, mediaKind |-> kind, mediaRef |-> ref])

ClientRequestSnapshot(s) ==
  /\ Has(sockets, s)
  /\ client[s].room.roomId # Null
  /\ SnapshotRequest(s, client[s].room.roomId)
  /\ client' = Deliver(client, out')
  /\ InboxesBounded

ClientPromoteLeader(s, participantId) ==
  /\ Has(sockets, s)
  /\ CanSendAsLeader(client[s])
  /\ PromoteLeader(s, client[s].room.roomId, participantId)
  /\ client' = Deliver(client, out')
  /\ InboxesBounded

\* leaveRoom(): the leader sends leader_leave_room, anyone else closes the
\* connection (the new connection socket.connect() opens gets another id);
\* the store's room is put back as created.
ClientLeaveRoom(s) ==
  /\ Has(sockets, s)
  /\ client[s].room.roomId # Null
  /\ IF client[s].room.isLeader
     THEN /\ LeaderLeaveRoom(s, client[s].room.roomId)
          /\ client' = Deliver([client EXCEPT ![s].room = InitialRoom], out')
     ELSE /\ Disconnect(s)
          /\ client' = Deliver([client EXCEPT ![s] =
                                  [OnDisconnect(@) EXCEPT !.room = InitialRoom]], out')
  /\ InboxesBounded

ClientHorizon == 1 + MaxWaits * JoinTimeoutMs

\* Thirty seconds pass.
Wait ==
  /\ now + JoinTimeoutMs <= ClientHorizon
  /\ Advance(JoinTimeoutMs)
  /\ UNCHANGED client

\* ------------------------------------------------------------------- Next

\* Request ids a client may name: those pending somewhere and one that is not.
RequestIds ==
  UNION {DOMAIN rooms[r].pendingRequests :
           r \in {x \in DOMAIN rooms : Has(rooms[x], "pendingRequests")}}
  \cup {RequestId("s1", 0)}

\* The handlers in groups, for senders S, share-token strings TK, heartbeats
\* HB and control messages CM.
Lifecycle(S) ==
  \/ \E s \in S : Connect(s) /\ UNCHANGED client
  \/ \E s \in S : Disconnect(s) /\ UNCHANGED client

Membership(S, TK) ==
  \/ \E s \in S, r \in RoomIds, t \in TK : JoinRoom(s, r, NameOf(s), t) /\ UNCHANGED client
  \/ \E s \in S, r \in RoomIds, q \in RequestIds : ApproveParticipant(s, r, q) /\ UNCHANGED client
  \/ \E s \in S, r \in RoomIds, q \in RequestIds : RejectParticipant(s, r, q) /\ UNCHANGED client
  \/ \E s \in S, r \in RoomIds, p \in S \cup {ProtoKey} : PromoteLeader(s, r, p) /\ UNCHANGED client
  \/ \E s \in S, r \in RoomIds, p \in S \cup {ProtoKey} : KickParticipant(s, r, p) /\ UNCHANGED client
  \/ \E s \in S, r \in RoomIds : LeaderLeaveRoom(s, r) /\ UNCHANGED client

Sharing(S) ==
  \E s \in S, r \in RoomIds, t \in Tokens :
    CreateShareToken(s, r, t) /\ UNCHANGED client

Playback(S, HB, CM) ==
  \/ \E s \in S, r \in RoomIds, h \in HB :
       LeaderState(s, r, h.mediaTime, h.isPlaying, h.mediaKind, h.mediaRef) /\ UNCHANGED client
  \/ \E s \in S, r \in RoomIds, m \in CM : Control(s, r, m) /\ UNCHANGED client
  \/ \E s \in S, r \in RoomIds : MediaCleared(s, r) /\ UNCHANGED client
  \/ \E s \in S, r \in RoomIds \cup {ProtoKey} :
       SnapshotRequest(s, r) /\ UNCHANGED client

\* Spec: every handler, two connections, all within one millisecond.
Pair == {"s1", "s2"}

Next ==
  \/ Lifecycle(Pair)
  \/ Membership(Pair, {NoArg, "tokA", ProtoKey})
  \/ Sharing(Pair)
  \/ Playback(Pair, Heartbeats, ControlMsgs)

Spec == Init /\ [][Next]_vars

\* SpecExpiry: the admission handlers while the clock runs past the
\* lifetime of a share token.
NextExpiry ==
  \/ Tick /\ UNCHANGED client
  \/ TickJump /\ UNCHANGED client
  \/ Lifecycle(Pair)
  \/ Membership(Pair, {NoArg, "tokA"})
  \/ Sharing(Pair)

SpecExpiry == Init /\ [][NextExpiry]_vars

\* --------------------------------------------- the registry called directly

\* state.js exports its functions; each is also an operation of its own, as a
\* caller or a unit test of the registry runs it.  SpecRegistry interleaves
\* such calls with the server's membership handlers.
RegistryCall(type, roomId, socketId, rs) ==
  /\ rooms' = rs
  /\ ev' = [type |-> type, roomId |-> roomId, socketId |-> socketId]
  /\ out' = {}
  /\ UNCHANGED <<sockets, closed, adapterRooms, now>>

CallCreateRoom(r) == RegistryCall("createRoom", r, NoArg, createRoom(rooms, r))
CallDeleteRoom(r) == RegistryCall("deleteRoom", r, NoArg, deleteRoom(rooms, r))
CallAddParticipant(r, s) ==
  RegistryCall("addParticipant", r, s, addParticipant(rooms, r, s, NameOf(s)))
CallRemoveParticipant(r, s) ==
  /\ rooms' = removeParticipant(rooms, r, s)
  /\ ev' = [type |-> "removeParticipant", roomId |-> r, socketId |-> s,
            outcome |-> removeParticipantOutcome(rooms, r, s)]
  /\ out' = {}
  /\ UNCHANGED <<sockets, closed, adapterRooms, now>>
CallPromoteLeader(r, s) ==
  RegistryCall("promoteLeader", r, s, promoteLeader(rooms, r, s))

NextRegistry ==
  \/ \E r \in RoomIds : CallCreateRoom(r) /\ UNCHANGED client
  \/ \E r \in RoomIds : CallDeleteRoom(r) /\ UNCHANGED client
  \/ \E r \in RoomIds, s \in SocketIds : CallAddParticipant(r, s) /\ UNCHANGED client
  \/ \E r \in RoomIds \cup {ProtoKey}, s \in SocketIds : CallRemoveParticipant(r, s) /\ UNCHANGED client
  \/ \E r \in RoomIds, s \in SocketIds \cup {ProtoKey} : CallPromoteLeader(r, s) /\ UNCHANGED client
  \/ Lifecycle(Pair)
  \/ Membership(Pair, {NoArg})

SpecRegistry == Init /\ [][NextRegistry]_vars

\* ------------------------------------------------- share tokens of two rooms

\* SpecScope: two connections, two rooms, and the handlers that make and
\* present share tokens.
NextScope ==
  \/ Lifecycle(Pair)
  \/ \E s \in Pair, r \in AllRoomIds, t \in {NoArg, "tokA", ProtoKey} :
       JoinRoom(s, r, NameOf(s), t) /\ UNCHANGED client
  \/ \E s \in Pair, r \in AllRoomIds, t \in {"tokA", ProtoKey} :
       CreateShareToken(s, r, t) /\ UNCHANGED client

SpecScope == Init /\ [][NextScope]_vars

\* ------------------------------------------- one connection, several requests

\* SpecCallbacks: three connections and two rooms, so that one connection can
\* have a join request pending with each of two leaders.
NextCallbacks ==
  \/ \E s \in SocketIds : Connect(s) /\ UNCHANGED client
  \/ \E s \in SocketIds, r \in AllRoomIds :
       JoinRoom(s, r, NameOf(s), NoArg) /\ UNCHANGED client
  \/ \E s \in SocketIds, r \in AllRoomIds, q \in RequestIds :
       ApproveParticipant(s, r, q) /\ UNCHANGED client
  \/ \E s \in SocketIds, r \in AllRoomIds, q \in RequestIds :
       RejectParticipant(s, r, q) /\ UNCHANGED client

SpecCallbacks == Init /\ [][NextCallbacks]_vars

\* ------------------------------------------------- a room id used again

\* Request ids a client may remember: the clock of SpecRebirth stands still,
\* so every request made so far has the current time in its id.
KnownRequestIds == {RequestId(s, now) : s \in Pair}

\* SpecRebirth: one room id, whose room is destroyed (the leader leaves or
\* disconnects) and made again, while clients present the share token and the
\* request ids they know of.
NextRebirth ==
  \/ Lifecycle(Pair)
  \/ \E s \in Pair, r \in RoomIds, t \in {NoArg, "tokA"} :
       JoinRoom(s, r, NameOf(s), t) /\ UNCHANGED client
  \/ \E s \in Pair, r \in RoomIds : CreateShareToken(s, r, "tokA") /\ UNCHANGED client
  \/ \E s \in Pair, r \in RoomIds, q \in KnownRequestIds :
       ApproveParticipant(s, r, q) /\ UNCHANGED client
  \/ \E s \in Pair, r \in RoomIds : LeaderLeaveRoom(s, r) /\ UNCHANGED client
  \/ \E s \in Pair, r \in RoomIds :
       LeaderState(s, r, 42, TRUE, "youtube", "vid1") /\ UNCHANGED client

SpecRebirth == Init /\ [][NextRebirth]_vars

\* ------------------------------------------------- playback while time passes

\* SpecPlayback: the playback handlers of two connections that join one room
\* and hand over its leadership, while the clock advances, so that the stamps
\* of different steps differ.
NextPlayback ==
  \/ Tick /\ UNCHANGED client
  \/ TickJump /\ UNCHANGED client
  \/ \E s \in Pair : Connect(s) /\ UNCHANGED client
  \/ \E s \in Pair, r \in RoomIds : JoinRoom(s, r, NameOf(s), NoArg) /\ UNCHANGED client
  \/ \E s \in Pair, r \in RoomIds, q \in RequestIds : ApproveParticipant(s, r, q) /\ UNCHANGED client
  \/ \E s \in Pair, r \in RoomIds, p \in Pair : PromoteLeader(s, r, p) /\ UNCHANGED client
  \/ Playback(Pair, Heartbeats, ControlMsgs)

SpecPlayback == Init /\ [][NextPlayback]_vars

\* ------------------------------------------------- browsers and the server

\* What the players of the browsers report when the heartbeat interval fires.
PlayerReadings == {[mediaTime |-> 42, isPlaying |-> TRUE]}

\* SpecClient: two browsers and the server; every message of the server goes
\* through the inbox of the browser it is addressed to, and the server handles
\* what a browser sends as soon as it is sent.  The media form is shown to
\* the browser that takes itself for the leader.
NextClient ==
  \/ \E s \in Pair : Connect(s) /\ UNCHANGED client
  \/ \E s \in Pair : Receive(s)
  \/ \E s \in Pair, r \in RoomIds : ClientJoinRoom(s, r)
  \/ \E s \in Pair, p \in PlayerReadings :
       ClientSendLeaderState(s, p.mediaTime, p.isPlaying)
  \/ \E s \in Pair : ClientControl(s, [type |-> "PAUSE"])
  \/ \E s \in Pair : CanSendAsLeader(client[s]) /\ ClientSetMedia(s, "youtube", "vid2")
  \/ \E s \in Pair : ClientRequestSnapshot(s)
  \/ \E s \in Pair, p \in Pair : ClientPromoteLeader(s, p)
  \/ \E s \in Pair : ClientLeaveRoom(s)

SpecClient == Init /\ [][NextClient]_vars

\* SpecJoin: the browsers' joinRoom calls, their timeouts and the leader's
\* answers, while the clock passes the thirty seconds.
NextJoin ==
  \/ \E s \in Pair : Connect(s) /\ UNCHANGED client
  \/ \E s \in Pair : Receive(s)
  \/ \E s \in Pair, r \in RoomIds : ClientJoinRoom(s, r)
  \/ \E s \in Pair : \E cb \in DOMAIN client[s].joins : JoinTimeout(s, cb)
  \/ \E s \in Pair : ClientLeaveRoom(s)
  \/ Wait

SpecJoin == Init /\ [][NextJoin]_vars

\* Clock offsets a follower may hold, and transit delays of a message, in ms.
Offsets == {0 - 500, 0, 500}
Delays == {0, 40}

\* ------------------------------------------------- the follower's player

\* Math.abs.
Abs(x) == IF x < 0 THEN 0 - x ELSE x

\* The drift, in ms, above which the follower effect seeks (0.5 s).
SeekThresholdMs == 500

\* The dependencies of the follower effect: React runs it again when one of
\* them has changed.
EffectDeps(c) ==
  <<c.room.isPlaying, c.room.currentTime, c.room.isLeader, c.room.mediaKind,
    c.room.mediaRef, c.player.ready>>

\* The position the effect compares the player's with:
\* calculateCurrentMediaTime(room.currentTime, Date.now(), room.isPlaying).
EffectExpected(c) ==
  calculateCurrentMediaTime(c.room.currentTime, LocalNow(c), c.room.isPlaying,
                            LocalNow(c), c.serverOffset)

\* Faulty variant: the drift is corrected whenever the store says playing,
\* also in the pass that starts the player.
EffectCommands_SeeksUnreconciled(c) ==
  LET isActuallyPlaying == c.player.state = "playing"
      expected == EffectExpected(c)
  IN  (IF c.room.isPlaying /\ ~isActuallyPlaying /\ c.player.state # "buffering"
       THEN <<[cmd |-> "play"]>>
       ELSE IF ~c.room.isPlaying /\ isActuallyPlaying
       THEN <<[cmd |-> "pause"]>>
       ELSE << >>)
      \o
      (IF /\ c.room.isPlaying
          /\ Abs(expected - c.player.currentTime) > SeekThresholdMs
       THEN <<[cmd |-> "seekTo", time |-> expected]>>
       ELSE << >>)

\* The commands the effect gives the player: play or pause to match the
\* store, then a seek when both play and the positions differ by more than
\* half a second.
EffectCommands(c) ==
  LET isActuallyPlaying == c.player.state = "playing"
      expected == EffectExpected(c)
  IN  (IF c.room.isPlaying /\ ~isActuallyPlaying /\ c.player.state # "buffering"
       THEN <<[cmd |-> "play"]>>
       ELSE IF ~c.room.isPlaying /\ isActuallyPlaying
       THEN <<[cmd |-> "pause"]>>
       ELSE << >>)
      \o
      (IF /\ c.room.isPlaying /\ isActuallyPlaying
          /\ Abs(expected - c.player.currentTime) > SeekThresholdMs
       THEN <<[cmd |-> "seekTo", time |-> expected]>>
       ELSE << >>)

\* The player after the commands.
RECURSIVE Obey(_, _)
Obey(player, cmds) ==
  IF cmds = << >> THEN player
  ELSE Obey(CASE Head(cmds).cmd = "play" -> [player EXCEPT !.state = "playing"]
              [] Head(cmds).cmd = "pause" -> [player EXCEPT !.state = "paused"]
              [] OTHER -> [player EXCEPT !.currentTime = Head(cmds).time],
            Tail(cmds))

\* The effect "Sync follower player with leader state" of SyncStreamApp.
FollowerSync(s) ==
  LET c == client[s]
      runs == /\ ~c.room.isLeader /\ c.player.ready
              /\ c.room.mediaKind # Null /\ c.room.mediaRef # Null
      cmds == IF runs THEN EffectCommands(c) ELSE << >>
      seeks == \E i \in 1..Len(cmds) : cmds[i].cmd = "seekTo"
  IN  /\ Has(sockets, s)
      /\ c.effectDeps # EffectDeps(c)
      /\ Local(s, [c EXCEPT !.effectDeps = EffectDeps(c),
                            !.player = Obey(@, cmds),
                            !.driftHistory = IF seeks THEN << >> ELSE @],
               IF runs
               THEN [type |-> "follower_sync", socket |-> s, ran |-> TRUE,
                     expected |-> EffectExpected(c),
                     actual |-> c.player.currentTime, commands |-> cmds]
               ELSE [type |-> "follower_sync", socket |-> s, ran |-> FALSE])

\* The player of browser s is ready and is at position t in the given state
\* (it plays on its own and its user may pause or seek it).
PlayerReports(s, t, state) ==
  /\ Has(sockets, s)
  /\ Local(s, [client[s] EXCEPT !.player = [ready |-> TRUE, currentTime |-> t,
                                            state |-> state]],
           [type |-> "player", socket |-> s])

\* calculateServerOffset(serverUrl): the /health probe gives the estimate d.
OffsetProbe(s, d) ==
  /\ Has(sockets, s)
  /\ Local(s, [client[s] EXCEPT !.serverOffset = d],
           [type |-> "offset", socket |-> s])

\* ------------------------------------------------- leader, follower, player

\* How many times the clock of SpecSync advances.
MaxTransits == 1
\* Time a heartbeat may be on its way, and what the leader's player reads.
Transits == {750}
SyncReadings == {[mediaTime |-> 10, isPlaying |-> TRUE],
                 [mediaTime |-> 10, isPlaying |-> FALSE]}
\* Positions and states the follower's player may report.
PlayerTimes == {10000, 10100, 10150, 10300, 10500, 11400}
PlayerStates == {"playing", "paused", "buffering"}

\* s1 has made room R1, chosen its media and approved s2; every message of
\* that has been handled.
JoinedRoom ==
  [NewRoom EXCEPT !.leaderId = "s1",
                  !.participants = [s \in Pair |-> NameOf(s)]]

JoinedClient(s) ==
  [InitialClient EXCEPT
     !.joins = Put(EmptyObj, Callback("R1", 1), [promise |-> "true", timer |-> 0]),
     !.room = IF s = "s1"
              THEN [InitialRoom EXCEPT !.roomId = "R1", !.participantId = s,
                                       !.leaderId = s, !.isLeader = TRUE,
                                       !.mediaKind = "youtube", !.mediaRef = "vid2",
                                       !.participants = [x \in Pair |-> NameOf(x)]]
              ELSE [InitialRoom EXCEPT !.roomId = "R1", !.participantId = s]]

InitSync ==
  /\ rooms = Put(EmptyObj, "R1", Put(JoinedRoom, "pendingRequests", EmptyObj))
  /\ sockets = [s \in Pair |-> EmptyObj]
  /\ closed = {}
  /\ adapterRooms = [r \in AllRoomIds |-> IF r = "R1" THEN Pair ELSE {}]
  /\ now = 1
  /\ ev = [type |-> "start"]
  /\ out = {}
  /\ client = [s \in SocketIds |-> IF s \in Pair THEN JoinedClient(s) ELSE InitialClient]

\* SpecSync: the leader's heartbeats reach the follower after some time on the
\* way, and the follower's effect steers its player.  The player and the
\* clock offset of the follower are followed; those of the leader stay as
\* created.
Follower == "s2"

NextSync ==
  \/ \E s \in Pair, p \in SyncReadings :
       ClientSendLeaderState(s, p.mediaTime, p.isPlaying)
  \/ \E s \in Pair : Receive(s)
  \/ \E d \in Transits :
       now + d <= 1 + MaxTransits * d /\ Advance(d) /\ UNCHANGED client
  \/ \E d \in Offsets : OffsetProbe(Follower, d)
  \/ \E t \in PlayerTimes, st \in PlayerStates : PlayerReports(Follower, t, st)
  \/ \E s \in Pair : FollowerSync(s)

SpecSync == InitSync /\ [][NextSync]_vars

\* SpecEffect: the follower effect alone.  The leader reports playing or
\* paused at 10 s, and the follower's player is in any of its states, at the
\* reported position or 1.4 s ahead of it.
EffectTimes == {10000, 11400}

NextEffect ==
  \/ \E s \in Pair, p \in SyncReadings :
       ClientSendLeaderState(s, p.mediaTime, p.isPlaying)
  \/ \E s \in Pair : Receive(s)
  \/ \E t \in EffectTimes, st \in PlayerStates : PlayerReports(Follower, t, st)
  \/ \E s \in Pair : FollowerSync(s)

SpecEffect == InitSync /\ [][NextEffect]_vars

\* ------------------------------------------------------- the offset probe

\* Faulty variant: the whole round trip is added to the server's timestamp.
estimateOffset_NoHalving(clientStartTime, serverTime, clientEndTime) ==
  LET roundTripTime == clientEndTime - clientStartTime
      estimatedServerNow == serverTime + roundTripTime
  IN  estimatedServerNow - clientEndTime

\* The offset calculateServerOffset stores (the clock here moves in steps of
\* 20 ms, so that half a round trip is a whole number of ms).
estimateOffset(clientStartTime, serverTime, clientEndTime) ==
  LET roundTripTime == clientEndTime - clientStartTime
      estimatedServerNow == serverTime + roundTripTime \div 2
  IN  estimatedServerNow - clientEndTime

\* calculateServerOffset(serverUrl) up to its fetch: the start time is read.
ProbeStart(s) ==
  LET probe == [clientStartTime |-> LocalNow(client[s]), answered |-> FALSE,
                timestamp |-> 0]
  IN  /\ probe \notin client[s].probes
      /\ Local(s, [client[s] EXCEPT !.probes = @ \cup {probe}],
               [type |-> "probe_start", socket |-> s])

\* GET /health: the server answers with its Date.now().
Health(s) ==
  \E probe \in client[s].probes :
    /\ ~probe.answered
    /\ Local(s, [client[s] EXCEPT !.probes =
                   (@ \ {probe}) \cup {[probe EXCEPT !.answered = TRUE,
                                                      !.timestamp = now]}],
             [type |-> "health", socket |-> s])

\* The answer has arrived and been parsed: the offset is stored.
ProbeDone(s) ==
  \E probe \in client[s].probes :
    /\ probe.answered
    /\ LET clientEndTime == LocalNow(client[s])
       IN  Local(s, [client[s] EXCEPT
                       !.probes = @ \ {probe},
                       !.serverOffset = estimateOffset(probe.clientStartTime,
                                                       probe.timestamp,
                                                       clientEndTime)],
                 [type |-> "probe_done", socket |-> s,
                  t0 |-> probe.clientStartTime, S |-> probe.timestamp,
                  t1 |-> clientEndTime])

\* fetch or response.json() has thrown: the catch block stores no offset.
ProbeFails(s) ==
  \E probe \in client[s].probes :
    Local(s, [client[s] EXCEPT !.probes = @ \ {probe}],
          [type |-> "probe_failed", socket |-> s])

\* The clock of SpecProbe moves MaxProbeTicks times by ProbeTick ms.
MaxProbeTicks == 2
ProbeTick == 20
\* How far the browser's clock may be behind the server's, in ms.
Skews == {0, 300}

InitProbe ==
  /\ rooms = EmptyObj
  /\ sockets = EmptyObj
  /\ closed = {}
  /\ adapterRooms = [r \in AllRoomIds |-> {}]
  /\ now = 1000
  /\ ev = [type |-> "start"]
  /\ out = {}
  /\ \E k \in Skews :
       client = [s \in SocketIds |-> [InitialClient EXCEPT !.skew = k]]

\* SpecProbe: one browser probes the server's clock while time passes.
NextProbe ==
  \/ ProbeStart(Follower)
  \/ Health(Follower)
  \/ ProbeDone(Follower)
  \/ ProbeFails(Follower)
  \/ /\ now + ProbeTick <= 1000 + MaxProbeTicks * ProbeTick
     /\ Advance(ProbeTick) /\ UNCHANGED client

SpecProbe == InitProbe /\ [][NextProbe]_vars

\* ------------------------------------------------------ the drift history

\* SyncEngine.DRIFT_HISTORY_SIZE and MAX_DRIFT_MS (here in ms).
DRIFT_HISTORY_SIZE == 10
MAX_DRIFT_MS == 150

\* SyncEngine.calculateDrift, in ms.
calculateDrift(expectedTime, actualTime) == actualTime - expectedTime

\* Faulty variant: the oldest sample is never dropped.
recordDrift_NoShift(history, drift) == Append(history, drift)

\* SyncEngine.recordDrift: push, then shift once when the size is exceeded.
recordDrift(history, drift) ==
  LET pushed == Append(history, drift)
  IN  IF Len(pushed) > DRIFT_HISTORY_SIZE THEN Tail(pushed) ELSE pushed

\* SyncEngine.shouldCorrectDrift.
shouldCorrectDrift(drift) == Abs(drift) > MAX_DRIFT_MS

\* SyncEngine.calculateCorrectionAmount: a tenth of a drift under half a
\* second, half of a larger one (the drifts used here are multiples of 20 ms,
\* so that both are whole numbers of ms).
calculateCorrectionAmount(drift) ==
  IF Abs(drift) < 500 THEN drift \div 10 ELSE drift \div 2

\* syncEngine.recordDrift(drift) on the engine of browser s.
RecordDrift(s, drift) ==
  Local(s, [client[s] EXCEPT !.driftHistory = recordDrift(@, drift)],
        [type |-> "recordDrift", socket |-> s, drift |-> drift,
         shifted |-> Len(client[s].driftHistory) >= DRIFT_HISTORY_SIZE])

\* syncEngine.applyCorrectionIfNeeded(expectedTime, actualTime, onSeek), with
\* an onSeek that seeks the player of browser s.
ApplyCorrectionIfNeeded(s, expectedTime, actualTime) ==
  LET drift == calculateDrift(expectedTime, actualTime)
      corrects == shouldCorrectDrift(drift)
      correctedTime == actualTime - calculateCorrectionAmount(drift)
  IN  Local(s, [client[s] EXCEPT
                  !.driftHistory = recordDrift(@, drift),
                  !.player = IF corrects
                             THEN Obey(@, <<[cmd |-> "seekTo", time |-> correctedTime]>>)
                             ELSE @],
            [type |-> "applyCorrectionIfNeeded", socket |-> s, drift |-> drift,
             shifted |-> Len(client[s].driftHistory) >= DRIFT_HISTORY_SIZE,
             seeks |-> IF corrects THEN <<correctedTime>> ELSE << >>,
             returns |-> corrects])

\* syncEngine.resetDriftHistory().
ResetDriftHistory(s) ==
  Local(s, [client[s] EXCEPT !.driftHistory = << >>],
        [type |-> "resetDriftHistory", socket |-> s])

\* Drifts handed to recordDrift, and the (expected, actual) positions handed
\* to applyCorrectionIfNeeded: one within the tolerance, one beyond it.
Drifts == {100}
Corrections == {[expected |-> 10000, actual |-> 10100],
                [expected |-> 10000, actual |-> 10600]}

\* SpecEngine: the three calls that touch the drift history, on one engine.
NextEngine ==
  \/ \E d \in Drifts : RecordDrift(Follower, d)
  \/ \E p \in Corrections : ApplyCorrectionIfNeeded(Follower, p.expected, p.actual)
  \/ ResetDriftHistory(Follower)

SpecEngine == Init /\ [][NextEngine]_vars

\* The leader's seek(time) calls and the corrections of SpecSeek.
SeekMsgs == {[type |-> "SEEK", toTime |-> 42]}
SeekCorrections == {[expected |-> 10000, actual |-> 10600]}

\* SpecSeek: every way a browser seeks.  The leader reports that it plays
\* and seeks, sync_state and control_update reach the follower, whose effect
\* steers its player, and the follower's engine may be asked to apply a
\* correction.
NextSeek ==
  \/ \E s \in Pair : ClientSendLeaderState(s, 10, TRUE)
  \/ \E s \in Pair, m \in SeekMsgs : ClientControl(s, m)
  \/ \E s \in Pair : Receive(s)
  \/ \E p \in SeekCorrections :
       ApplyCorrectionIfNeeded(Follower, p.expected, p.actual)
  \/ PlayerReports(Follower, 10000, "playing")
  \/ \E s \in Pair : FollowerSync(s)

SpecSeek == InitSync /\ [][NextSeek]_vars

\* =================================================================== claims

\* What the claims speak of.
Participants(rs, r) == IF Has(rs, r) THEN DOMAIN rs[r].participants ELSE {}
Pending(rs, r) ==
  IF Has(rs, r) /\ Has(rs[r], "pendingRequests") THEN rs[r].pendingRequests ELSE EmptyObj
ShareTokens(rs, r) ==
  IF Has(rs, r) /\ Has(rs[r], "shareTokens") THEN rs[r].shareTokens ELSE EmptyObj
PlaybackFields(room) ==
  <<room.leaderMediaTime, room.isPlaying, room.mediaKind, room.mediaRef>>
HadLeader(r) == Has(rooms, r) /\ rooms[r].leaderId # Null
LeaderOnlyTypes ==
  {"leader_state", "control", "media_cleared", "promote_leader", "kick_participant",
   "create_share_token", "approve_participant", "reject_participant",
   "leader_leave_room"}
\* The acknowledgments among msgs that admit socket s (isLeader as given).
JoinedAcks(msgs, s, isLeader) ==
  {m \in msgs : /\ m.type = "join_ack" /\ m.to = s
                /\ Has(m.data, "isLeader") /\ m.data.isLeader = isLeader
                /\ m.data.participantId = s}
\* The acknowledgments among msgs that answer socket s with the error text.
ErrorAcks(msgs, s, text) ==
  {m \in msgs : /\ m.type = "join_ack" /\ m.to = s
                /\ Has(m.data, "error") /\ m.data.error = text}

\* C1 (refuted by the code): in every reachable state the leaderId of every
\* registered room is null or a key of that room's participants.
C1_LeaderNullOrParticipant ==
  \A r \in DOMAIN rooms :
    rooms[r].leaderId = Null \/ rooms[r].leaderId \in DOMAIN rooms[r].participants

\* C2 (refuted by the code): every registered room has exactly one leader, a
\* non-null leaderId that names one of its current participants.
C2_ExactlyOneLeader ==
  \A r \in DOMAIN rooms :
    /\ rooms[r].leaderId # Null
    /\ Cardinality({p \in DOMAIN rooms[r].participants : p = rooms[r].leaderId}) = 1

Admitted(r) == Participants(rooms', r) \ Participants(rooms, r)

\* C4, first half (kept by the amendment): while room r has a leader, a
\* connection is added to participants only by its own join_room with a stored
\* token and now < expiresAt, or by the leader's approve_participant of a
\* pending request of that connection.
C4_AdmittedOnlyByTokenOrApproval(r) ==
  \A p \in Admitted(r) :
    \/ /\ ev'.type = "join_room" /\ ev'.socket = p /\ ev'.roomId = r
       /\ Has(ShareTokens(rooms, r), ev'.shareToken)
       /\ now < ShareTokens(rooms, r)[ev'.shareToken].expiresAt
    \/ /\ ev'.type = "approve_participant" /\ ev'.roomId = r
       /\ ev'.socket = rooms[r].leaderId
       /\ Has(Pending(rooms, r), ev'.requestId)
       /\ Pending(rooms, r)[ev'.requestId].socketId = p

\* A join_room of this step to room r, which has a leader, by socket s.
JoinStep(r, s) ==
  ev'.type = "join_room" /\ ev'.roomId = r /\ ev'.socket = s /\ HadLeader(r)

\* The join only creates the pending request <<s, now>>.
OnlyPendingCreated(r, s) ==
  /\ Participants(rooms', r) = Participants(rooms, r)
  /\ Pending(rooms', r) =
       Put(Pending(rooms, r), RequestId(s, now),
           [socketId |-> s, name |-> ev'.name, timestamp |-> now])
  /\ rooms'[r].leaderId = rooms[r].leaderId
  /\ ShareTokens(rooms', r) = ShareTokens(rooms, r)

\* participant_join_request for <<s, now>> is emitted on the leader's
\* channel and on no other: it reaches the leader when the leader is another,
\* connected socket.
LeaderNotified(r, s) ==
  /\ \A m \in out' : /\ m.type = "participant_join_request"
                     /\ m.to = rooms[r].leaderId
                     /\ m.data.requestId = RequestId(s, now)
  /\ (rooms[r].leaderId # s /\ Has(sockets, rooms[r].leaderId)) => out' # {}

C5_NonLeaderDropped ==
  [][(ev'.type \in LeaderOnlyTypes
      /\ ~(Has(rooms, ev'.roomId) /\ rooms[ev'.roomId].leaderId = ev'.socket))
     => /\ rooms' = rooms
        /\ sockets' = sockets
        /\ adapterRooms' = adapterRooms
        /\ out' = {}]_vars

\* A participant that is not the leader sent a leader-only message to its
\* room, whose leader is another connected participant.
C5_Witness ==
  /\ ev.type \in LeaderOnlyTypes
  /\ Has(rooms, ev.roomId)
  /\ ev.socket \in DOMAIN rooms[ev.roomId].participants
  /\ rooms[ev.roomId].leaderId # ev.socket
  /\ Has(sockets, rooms[ev.roomId].leaderId)
  /\ rooms[ev.roomId].isPlaying
  /\ out = {}

\* C6: leaderMediaTime, isPlaying, mediaKind and mediaRef of a room change
\* only in a step that handles leader_state, control or media_cleared sent for
\* that room by its current leader.
C6_PlaybackOnlyByLeader ==
  [][\A r \in (DOMAIN rooms) \cap (DOMAIN rooms') :
       PlaybackFields(rooms'[r]) # PlaybackFields(rooms[r])
       => /\ ev'.type \in {"leader_state", "control", "media_cleared"}
          /\ ev'.roomId = r
          /\ ev'.socket = rooms[r].leaderId]_vars

\* The leader handed leadership to another participant of a room that is
\* playing media.
C6_Witness ==
  /\ ev.type = "promote_leader"
  /\ out # {}
  /\ rooms[ev.roomId].leaderId = ev.participantId
  /\ ev.participantId \in DOMAIN sockets
  /\ rooms[ev.roomId].isPlaying
  /\ rooms[ev.roomId].leaderMediaTime = 42
  /\ rooms[ev.roomId].mediaKind = "youtube"

C8_ApprovalAdmits ==
  [][/\ \A r \in RoomIds, p \in SocketIds :
          (JoinStep(r, p) /\ ev'.shareToken = NoArg /\ p \notin Participants(rooms, r))
          => /\ Has(Pending(rooms', r), RequestId(p, now))
             /\ Pending(rooms', r)[RequestId(p, now)].socketId = p
             /\ p \notin Participants(rooms', r)
     /\ (ev'.type = "approve_participant"
         /\ HadLeader(ev'.roomId) /\ rooms[ev'.roomId].leaderId = ev'.socket
         /\ Has(Pending(rooms, ev'.roomId), ev'.requestId))
        => LET r == ev'.roomId
               q == ev'.requestId
               req == Pending(rooms, r)[q]
               p == req.socketId
           IN  (/\ Has(sockets, p) /\ Has(sockets[p], "joinCallback")
                /\ sockets[p].joinCallback = Callback(r, req.timestamp)
                /\ p \notin Participants(rooms, r))
               => /\ Participants(rooms', r) = Participants(rooms, r) \cup {p}
                  /\ rooms'[r].leaderId = ev'.socket
                  /\ rooms'[r].leaderId # p
                  /\ \E m \in JoinedAcks(out', p, FALSE) :
                       m.callback = Callback(r, req.timestamp)
                  /\ ~Has(Pending(rooms', r), q)
     /\ (ev'.type \in {"approve_participant", "reject_participant"}
         /\ ~Has(Pending(rooms, ev'.roomId), ev'.requestId))
        => rooms' = rooms /\ sockets' = sockets /\ out' = {}]_vars

\* The leader approved a request: the requester was acknowledged as a
\* non-leader and is a participant beside the leader, and nothing is pending.
C8_Witness ==
  /\ ev.type = "approve_participant"
  /\ \E p \in SocketIds :
       /\ JoinedAcks(out, p, FALSE) # {}
       /\ p # ev.socket
       /\ DOMAIN rooms[ev.roomId].participants = {p, ev.socket}
  /\ rooms[ev.roomId].leaderId = ev.socket
  /\ Pending(rooms, ev.roomId) = EmptyObj

\* C9: when the current leader rejects an existing pending request, the
\* request leaves pendingRequests; participants, leaderId, shareTokens, the
\* playback fields and the channel are unchanged, so the requester is not
\* admitted; and a requester whose join call awaits the decision is answered
\* with the rejection error and nothing else is delivered.
C9_RejectOnlyDropsRequest ==
  [][(ev'.type = "reject_participant"
      /\ HadLeader(ev'.roomId) /\ rooms[ev'.roomId].leaderId = ev'.socket
      /\ Has(Pending(rooms, ev'.roomId), ev'.requestId))
     => LET r == ev'.roomId
            q == ev'.requestId
            p == Pending(rooms, r)[q].socketId
        IN  /\ Has(rooms', r)
            /\ Pending(rooms', r) = Del(Pending(rooms, r), q)
            /\ rooms'[r].participants = rooms[r].participants
            /\ rooms'[r].leaderId = rooms[r].leaderId
            /\ Has(rooms'[r], "shareTokens") = Has(rooms[r], "shareTokens")
            /\ ShareTokens(rooms', r) = ShareTokens(rooms, r)
            /\ RoomState(rooms'[r]) = RoomState(rooms[r])
            /\ adapterRooms' = adapterRooms
            /\ p \notin Participants(rooms, r) => p \notin Participants(rooms', r)
            /\ (Has(sockets, p) /\ Has(sockets[p], "joinCallback"))
               => /\ out' # {}
                  /\ out' = ErrorAcks(out', p, "Join request was rejected by the room leader")
            /\ ~(Has(sockets, p) /\ Has(sockets[p], "joinCallback")) => out' = {}]_vars

\* A waiting requester was answered with the rejection error and is no
\* participant of the room, which keeps its leader.
C9_Witness ==
  /\ ev.type = "reject_participant"
  /\ \E p \in SocketIds :
       /\ ErrorAcks(out, p, "Join request was rejected by the room leader") # {}
       /\ p \notin DOMAIN rooms[ev.roomId].participants
  /\ rooms[ev.roomId].leaderId = ev.socket
  /\ ~Has(Pending(rooms, ev.roomId), ev.requestId)

\* C10: a join_room that presents a token stored in shareTokens of a room with
\* a leader is admitted (acknowledged as a non-leader participant, the token
\* kept) when now < expiresAt; otherwise (now >= expiresAt) the token is
\* removed, the requester receives the expiry error and nothing else, and
\* participants and pendingRequests are unchanged.
C10_TokenAdmitsUntilExpiry ==
  [][\A r \in RoomIds, s \in SocketIds :
       (JoinStep(r, s) /\ Has(ShareTokens(rooms, r), ev'.shareToken))
       => LET t == ev'.shareToken
              expiresAt == ShareTokens(rooms, r)[t].expiresAt
          IN  IF now < expiresAt
              THEN /\ s \in Participants(rooms', r)
                   /\ JoinedAcks(out', s, FALSE) # {}
                   /\ Has(ShareTokens(rooms', r), t)
                   /\ Pending(rooms', r) = Pending(rooms, r)
              ELSE /\ ~Has(ShareTokens(rooms', r), t)
                   /\ out' # {}
                   /\ out' = ErrorAcks(out', s,
                        "Share link has expired. Please request a new one from the room leader.")
                   /\ Participants(rooms', r) = Participants(rooms, r)
                   /\ Pending(rooms', r) = Pending(rooms, r)]_vars

\* A join presenting a token at the very millisecond of its expiry (the token
\* was made at time 1, so expiresAt = TokenTTL + 1 = now) was answered with
\* the expiry error, and the requester is no participant.
C10_Witness ==
  /\ ev.type = "join_room" /\ ev.shareToken = "tokA"
  /\ now = TokenTTL + 1
  /\ ErrorAcks(out, ev.socket,
       "Share link has expired. Please request a new one from the room leader.") # {}
  /\ Has(rooms, ev.roomId)
  /\ ev.socket \notin DOMAIN rooms[ev.roomId].participants

\* C11: a create_share_token of the leader at time c stores the token with
\* expiresAt = c + 24 h; every join_room that presents a stored token of a
\* room with a leader before c + 24 h (c its creation time) makes the
\* requester a participant in that step, acknowledged with isLeader = false,
\* without a pending request and without a change of leader, and leaves the
\* token's entry in shareTokens as it was.
C11_TokenReusable ==
  [][/\ (ev'.type = "create_share_token"
         /\ HadLeader(ev'.roomId) /\ rooms[ev'.roomId].leaderId = ev'.socket)
        => /\ Has(ShareTokens(rooms', ev'.roomId), ev'.shareToken)
           /\ ShareTokens(rooms', ev'.roomId)[ev'.shareToken].createdAt = now
           /\ ShareTokens(rooms', ev'.roomId)[ev'.shareToken].expiresAt
                = now + 24 * 60 * 60 * 1000
     /\ \A r \in RoomIds, s \in SocketIds :
          (/\ JoinStep(r, s) /\ Has(ShareTokens(rooms, r), ev'.shareToken)
           /\ now < ShareTokens(rooms, r)[ev'.shareToken].createdAt + 24 * 60 * 60 * 1000)
          => /\ s \in Participants(rooms', r)
             /\ JoinedAcks(out', s, FALSE) # {}
             /\ rooms'[r].leaderId = rooms[r].leaderId
             /\ Pending(rooms', r) = Pending(rooms, r)
             /\ ShareTokens(rooms', r) = ShareTokens(rooms, r)]_vars

\* In the last millisecond of a token made at time 1, a connection other than
\* the leader joined with it: it is a participant, acknowledged as a
\* non-leader, and the token is still stored.
C11_Witness ==
  /\ ev.type = "join_room" /\ ev.shareToken = "tokA"
  /\ now = TokenTTL
  /\ Has(ShareTokens(rooms, ev.roomId), "tokA")
  /\ ShareTokens(rooms, ev.roomId)["tokA"].createdAt = 1
  /\ JoinedAcks(out, ev.socket, FALSE) # {}
  /\ ev.socket \in Participants(rooms, ev.roomId)
  /\ rooms[ev.roomId].leaderId # ev.socket

\* A token string that is stored in the shareTokens of a room other than r.
TokenOfAnotherRoom(r, t) ==
  /\ t # NoArg
  /\ ~Has(ShareTokens(rooms, r), t)
  /\ \E a \in (DOMAIN rooms) \ {r} : Has(ShareTokens(rooms, a), t)

\* C12 (refuted by the code): a join_room to a room with a leader that
\* presents a token stored only for another room does not admit the requester
\* and is handled as a join without a token: it only creates the requester's
\* pending request and notifies the leader.
C12_TokenScopedToRoom ==
  [][\A r \in AllRoomIds, s \in SocketIds :
       (JoinStep(r, s) /\ TokenOfAnotherRoom(r, ev'.shareToken))
       => /\ Admitted(r) = {}
          /\ JoinedAcks(out', s, FALSE) = {} /\ JoinedAcks(out', s, TRUE) = {}
          /\ OnlyPendingCreated(r, s)
          /\ LeaderNotified(r, s)]_vars

\* The part of C12 the code keeps: such a join never admits the requester.
C12_NeverAdmitsElsewhere ==
  [][\A r \in AllRoomIds, s \in SocketIds :
       (JoinStep(r, s) /\ TokenOfAnotherRoom(r, ev'.shareToken))
       => /\ Admitted(r) = {}
          /\ JoinedAcks(out', s, FALSE) = {} /\ JoinedAcks(out', s, TRUE) = {}
          /\ ev'.shareToken # ProtoKey
             => OnlyPendingCreated(r, s) /\ LeaderNotified(r, s)]_vars

\* C13 (refuted by the code): when the leader kicks a participant T other
\* than itself, T leaves participants, a connected T receives
\* participant_kicked, and every remaining participant that is connected, the
\* leader included, receives participant_left with reason "kicked" and T's
\* display name; a kick whose target is the leader changes nothing.
C13_KickNotifiesEveryMember ==
  [][(ev'.type = "kick_participant"
      /\ HadLeader(ev'.roomId) /\ rooms[ev'.roomId].leaderId = ev'.socket)
     => LET r == ev'.roomId
            T == ev'.participantId
        IN  /\ (T # ev'.socket /\ T \in Participants(rooms, r))
               => /\ Participants(rooms', r) = Participants(rooms, r) \ {T}
                  /\ Has(sockets, T)
                     => \E m \in out' : m.to = T /\ m.type = "participant_kicked"
                  /\ \A p \in Participants(rooms', r) \cap DOMAIN sockets :
                       \E m \in out' :
                         /\ m.to = p /\ m.type = "participant_left"
                         /\ m.data.reason = "kicked"
                         /\ m.data.participantId = T
                         /\ m.data.kickedParticipantName = rooms[r].participants[T]
            /\ T = ev'.socket
               => /\ rooms' = rooms /\ sockets' = sockets
                  /\ adapterRooms' = adapterRooms /\ out' = {}]_vars

C15_OnRegistered(r, id) ==
  IF rooms[r].leaderId = id \/ DOMAIN rooms[r].participants \ {id} = {}
  THEN ~Has(rooms', r) /\ ev'.outcome = "null"
  ELSE /\ ev'.outcome = "room"
       /\ Has(rooms', r)
       /\ rooms'[r] = [rooms[r] EXCEPT !.participants = Del(@, id)]
       /\ rooms'[r].leaderId = rooms[r].leaderId
       /\ id \notin Participants(rooms', r)

\* C15 (refuted by the code): removeParticipant(r, id) destroys the room and
\* returns null when id is the leader or the removal empties participants;
\* otherwise it returns the room, still registered, with the same leader and
\* without id; for a room id that is not registered it returns null and
\* neither creates a room nor raises.
C15_RemoveParticipant ==
  [][ev'.type = "removeParticipant"
     => IF Has(rooms, ev'.roomId)
        THEN C15_OnRegistered(ev'.roomId, ev'.socketId)
        ELSE rooms' = rooms /\ ev'.outcome = "null"]_vars

\* The part of C15 the code keeps: the same, for room ids that name no
\* property inherited from Object.prototype.
C15_RemoveParticipantOwnIds ==
  [][(ev'.type = "removeParticipant" /\ ev'.roomId # ProtoKey)
     => IF Has(rooms, ev'.roomId)
        THEN C15_OnRegistered(ev'.roomId, ev'.socketId)
        ELSE rooms' = rooms /\ ev'.outcome = "null"]_vars

\* C16 (refuted by the code): when the connection of a room's leader
\* disconnects while another participant remains, the room stays registered
\* with the remaining participants; a disconnect destroys a room only when it
\* leaves the room without participants.
C16_LeaderDisconnectKeepsRoom ==
  [][ev'.type = "disconnect"
     => \A r \in DOMAIN rooms :
          LET s == ev'.socket
              remaining == Participants(rooms, r) \ {s}
          IN  /\ (rooms[r].leaderId = s /\ remaining # {})
                 => /\ Has(rooms', r)
                    /\ Participants(rooms', r) = remaining
              /\ ~Has(rooms', r) => remaining = {}]_vars

\* A promote_leader of this step sent by the leader of the room it names.
PromoteStep ==
  /\ ev'.type = "promote_leader"
  /\ HadLeader(ev'.roomId) /\ rooms[ev'.roomId].leaderId = ev'.socket

\* What C17 says of a promotion whose target T is a participant.
C17_TargetParticipant(r, T) ==
  /\ rooms'[r] = [rooms[r] EXCEPT !.leaderId = T]
  /\ \A p \in Participants(rooms, r) \cap DOMAIN sockets :
       \E m \in out' : /\ m.to = p /\ m.type = "leader_changed"
                       /\ m.data.newLeaderId = T
  /\ \A m \in out' : m.type = "leader_changed"

\* C17 (refuted by the code): promote_leader from the current leader with a
\* target T that is a participant makes T the leader in that step, leaves
\* participants as they were and delivers leader_changed naming T to every
\* connected participant; with a target that is no participant it leaves the
\* room as it was and delivers nothing.
C17_PromoteLeader ==
  [][PromoteStep
     => LET r == ev'.roomId
            T == ev'.participantId
        IN  IF T \in Participants(rooms, r)
            THEN C17_TargetParticipant(r, T)
            ELSE rooms' = rooms /\ out' = {}]_vars

\* The part of C17 the code keeps: the promotion of a participant.
C17_PromoteParticipant ==
  [][(PromoteStep /\ ev'.participantId \in Participants(rooms, ev'.roomId))
     => C17_TargetParticipant(ev'.roomId, ev'.participantId)]_vars

\* A message of the given type sent in this step by the leader of its room.
LeaderStep(type) ==
  /\ ev'.type = type
  /\ HadLeader(ev'.roomId) /\ rooms[ev'.roomId].leaderId = ev'.socket

\* C18: a control message from the leader changes the room thus: PLAY sets
\* isPlaying = true and PAUSE sets isPlaying = false, SEEK with a numeric
\* toTime sets leaderMediaTime = toTime and leaves isPlaying, each stamping
\* leaderServerTs = now and changing nothing else; SEEK without a numeric
\* toTime changes no field.  In every case a control_update with the verb and
\* the resulting leaderMediaTime, leaderServerTs and isPlaying is delivered to
\* every connected participant, the leader included.
C18_ControlCanonicalState ==
  [][LeaderStep("control")
     => LET r == ev'.roomId
            msg == ev'.msg
            room == rooms[r]
        IN  /\ Has(rooms', r)
            /\ msg.type = "PLAY"
               => rooms'[r] = [room EXCEPT !.isPlaying = TRUE, !.leaderServerTs = now]
            /\ msg.type = "PAUSE"
               => rooms'[r] = [room EXCEPT !.isPlaying = FALSE, !.leaderServerTs = now]
            /\ (msg.type = "SEEK" /\ Has(msg, "toTime"))
               => /\ rooms'[r] = [room EXCEPT !.leaderMediaTime = msg.toTime,
                                              !.leaderServerTs = now]
                  /\ rooms'[r].isPlaying = room.isPlaying
            /\ (msg.type = "SEEK" /\ ~Has(msg, "toTime")) => rooms'[r] = room
            /\ \A p \in (Participants(rooms, r) \cap DOMAIN sockets) \cup {ev'.socket} :
                 \E m \in out' :
                   /\ m.to = p /\ m.type = "control_update"
                   /\ m.data.type = msg.type
                   /\ m.data.leaderMediaTime = rooms'[r].leaderMediaTime
                   /\ m.data.leaderServerTs = rooms'[r].leaderServerTs
                   /\ m.data.isPlaying = rooms'[r].isPlaying]_vars

\* A day after the room began to play, its leader sought to 42: the room
\* still plays, holds the new time and stamp, and the leader and the other
\* participant both received the update.
C18_Witness ==
  /\ ev.type = "control" /\ ev.msg.type = "SEEK" /\ Has(ev.msg, "toTime")
  /\ now = TokenTTL
  /\ Has(rooms, ev.roomId)
  /\ rooms[ev.roomId].leaderId = ev.socket
  /\ rooms[ev.roomId].isPlaying
  /\ rooms[ev.roomId].leaderMediaTime = 42
  /\ rooms[ev.roomId].leaderServerTs = now
  /\ \E p \in SocketIds :
       /\ p # ev.socket
       /\ {m.to : m \in {x \in out : x.type = "control_update"}} = {p, ev.socket}

\* C19: a leader_state heartbeat from the current leader sets leaderMediaTime
\* and isPlaying to the values sent and leaderServerTs to now, leaves
\* participants, leaderId, pendingRequests and shareTokens as they were, and
\* delivers a sync_state with those values to every connected participant
\* except the leader, to whom nothing is delivered.
C19_HeartbeatRelayed ==
  [][LeaderStep("leader_state")
     => LET r == ev'.roomId
            s == ev'.socket
        IN  /\ Has(rooms', r)
            /\ rooms'[r].leaderMediaTime = ev'.mediaTime
            /\ rooms'[r].isPlaying = ev'.isPlaying
            /\ rooms'[r].leaderServerTs = now
            /\ rooms'[r].participants = rooms[r].participants
            /\ rooms'[r].leaderId = rooms[r].leaderId
            /\ Has(rooms'[r], "pendingRequests") = Has(rooms[r], "pendingRequests")
            /\ Pending(rooms', r) = Pending(rooms, r)
            /\ Has(rooms'[r], "shareTokens") = Has(rooms[r], "shareTokens")
            /\ ShareTokens(rooms', r) = ShareTokens(rooms, r)
            /\ \A p \in (Participants(rooms, r) \cap DOMAIN sockets) \ {s} :
                 \E m \in out' :
                   /\ m.to = p /\ m.type = "sync_state"
                   /\ m.data.leaderMediaTime = ev'.mediaTime
                   /\ m.data.isPlaying = ev'.isPlaying
                   /\ m.data.leaderServerTs = now
            /\ \A m \in out' : m.to # s /\ m.type = "sync_state"]_vars

\* A day after the room was made, its leader sent a heartbeat at media time
\* 42: the room holds it with the stamp of that moment and the other
\* participant, only, received the sync_state.
C19_Witness ==
  /\ ev.type = "leader_state" /\ ev.mediaTime = 42 /\ ev.isPlaying
  /\ now = TokenTTL
  /\ Has(rooms, ev.roomId)
  /\ rooms[ev.roomId].leaderId = ev.socket
  /\ rooms[ev.roomId].leaderMediaTime = 42
  /\ rooms[ev.roomId].leaderServerTs = now
  /\ \E p \in SocketIds :
       /\ p # ev.socket
       /\ {m.to : m \in {x \in out : x.type = "sync_state"}} = {p}

\* C20 (refuted by the code): leaderServerTs is the server time at which the
\* current leaderMediaTime was recorded, that is, a step changes
\* leaderServerTs of a room only when it records leaderMediaTime in that same
\* step: a heartbeat with its mediaTime, a SEEK with its numeric toTime, or a
\* media_cleared with 0.
C20_StampOfMediaTime ==
  [][\A r \in (DOMAIN rooms) \cap (DOMAIN rooms') :
       rooms'[r].leaderServerTs # rooms[r].leaderServerTs
       => /\ rooms'[r].leaderServerTs = now
          /\ \/ /\ ev'.type = "leader_state"
                /\ rooms'[r].leaderMediaTime = ev'.mediaTime
             \/ /\ ev'.type = "control" /\ ev'.msg.type = "SEEK" /\ Has(ev'.msg, "toTime")
                /\ rooms'[r].leaderMediaTime = ev'.msg.toTime
             \/ /\ ev'.type = "media_cleared"
                /\ rooms'[r].leaderMediaTime = 0]_vars

\* What a follower with offset d computes from leader state (lmt, ts, playing)
\* when the message reaches it `delay` ms after server time ts0; its local
\* clock is the server's less `skew`.
ExpectedOnReceipt(lmt, ts, playing, ts0, delay, skew, d) ==
  calculateCurrentMediaTime(Ms(lmt), ts, playing, ts0 + delay - skew, d)

\* A heartbeat of this step, from the leader, equal to the one that made the
\* room's present state.
SameHeartbeatAgain ==
  /\ LeaderStep("leader_state")
  /\ rooms[ev'.roomId].leaderServerTs > 0
  /\ LeaderStateUpdate(rooms[ev'.roomId], ev'.mediaTime, ev'.isPlaying,
                       ev'.mediaKind, ev'.mediaRef,
                       rooms[ev'.roomId].leaderServerTs) = rooms[ev'.roomId]

\* A follower that gets the first and the second heartbeat after the same
\* delay computes the same position from each.
SameExpected(r) ==
  \A delay \in Delays, skew \in Offsets, d \in Offsets :
    ExpectedOnReceipt(rooms'[r].leaderMediaTime, rooms'[r].leaderServerTs,
                      rooms'[r].isPlaying, now, delay, skew, d)
    = ExpectedOnReceipt(rooms[r].leaderMediaTime, rooms[r].leaderServerTs,
                        rooms[r].isPlaying, rooms[r].leaderServerTs, delay, skew, d)

\* C21 as stated (refuted): the same heartbeat sent twice in a row leaves the
\* same canonical room state after the second as after the first, and a
\* follower with unchanged offset computes the same expected position.
C21_Original ==
  [][SameHeartbeatAgain
     => rooms'[ev'.roomId] = rooms[ev'.roomId] /\ SameExpected(ev'.roomId)]_vars

\* C21 amended: the second heartbeat leaves the room as the first did but for
\* leaderServerTs, which becomes the server time of the second; the sync_state
\* it sends carries that stamp; and a follower with unchanged offset that
\* gets both after the same delay computes the same expected position.
C21_IdempotentButStamp ==
  [][SameHeartbeatAgain
     => LET r == ev'.roomId
        IN  /\ rooms'[r] = [rooms[r] EXCEPT !.leaderServerTs = now]
            /\ \A m \in out' : /\ m.data.leaderServerTs = now
                               /\ m.data.leaderMediaTime = rooms[r].leaderMediaTime
                               /\ m.data.isPlaying = rooms[r].isPlaying
            /\ SameExpected(r)]_vars

\* A playing room whose last heartbeat (42, playing) was stamped a
\* millisecond after an earlier stamp could be taken, and was relayed to the
\* follower.
C21_Witness ==
  /\ ev.type = "leader_state" /\ ev.mediaTime = 42 /\ ev.isPlaying
  /\ now = TokenTTL + 1
  /\ Has(rooms, ev.roomId)
  /\ rooms[ev.roomId].leaderId = ev.socket
  /\ rooms[ev.roomId].leaderServerTs = now
  /\ \E m \in out : m.type = "sync_state" /\ m.to # ev.socket
                    /\ m.data.leaderServerTs = now

\* The answer snapshot_request is to give for a registered room.
SnapshotOf(room) ==
  [mediaKind |-> room.mediaKind, mediaRef |-> room.mediaRef,
   isPlaying |-> room.isPlaying, leaderMediaTime |-> room.leaderMediaTime,
   leaderServerTs |-> room.leaderServerTs, leaderId |-> room.leaderId,
   participants |-> room.participants]

\* C23 (refuted by the code): a snapshot_request for a registered room is
\* answered with the room's current fields, to the requester only, and it
\* changes no state; a snapshot_request for a room id that is not registered
\* produces no answer and registers no room.
C23_SnapshotAnswersRequesterOnly ==
  [][ev'.type = "snapshot_request"
     => /\ rooms' = rooms /\ sockets' = sockets /\ adapterRooms' = adapterRooms
        /\ out' = IF Has(rooms, ev'.roomId)
                  THEN {[to |-> ev'.socket, type |-> "snapshot_response",
                         data |-> SnapshotOf(rooms[ev'.roomId])]}
                  ELSE {}]_vars

\* This step handles an approve_participant of the room's leader that names
\* a pending request whose requester's connection has ended.
ApprovesVanished ==
  /\ ev'.type = "approve_participant"
  /\ DecisionGuard(ev'.socket, ev'.roomId)
  /\ Has(rooms[ev'.roomId].pendingRequests, ev'.requestId)
  /\ rooms[ev'.roomId].pendingRequests[ev'.requestId].socketId \in closed

\* C25: when the requester's connection has ended while its join request was
\* pending, an approve_participant for that request adds nobody to
\* participants, invokes no join callback (delivers nothing) and deletes the
\* request, so that no later approval finds it.
C25_StaleApprovalDiscarded ==
  [][ApprovesVanished
     => LET r == ev'.roomId
        IN  /\ Has(rooms', r)
            /\ rooms'[r].participants = rooms[r].participants
            /\ out' = {}
            /\ ~Has(rooms'[r].pendingRequests, ev'.requestId)
            /\ sockets' = sockets /\ adapterRooms' = adapterRooms]_vars

\* The leader has approved the request that s2 made before its connection
\* ended: nothing was delivered, s2 is no participant, the request is gone.
C25_Witness ==
  /\ ev.type = "approve_participant" /\ ev.requestId = RequestId("s2", 1)
  /\ "s2" \in closed
  /\ Has(rooms, ev.roomId) /\ rooms[ev.roomId].leaderId = ev.socket
  /\ ~Has(rooms[ev.roomId].participants, "s2")
  /\ Has(rooms[ev.roomId], "pendingRequests")
  /\ ~Has(rooms[ev.roomId].pendingRequests, ev.requestId)
  /\ out = {}

\* C26 (refuted by the code): when the connection of a participant
\* disconnects, it is removed from every room it had joined, and where it
\* was not the leader the remaining connected members receive participant_left
\* with the updated participant list; no connection that has ended remains a
\* key of participants or the leaderId of a room.
C26_DisconnectDeparts ==
  /\ [][ev'.type = "disconnect"
        => \A r \in DOMAIN rooms :
             LET s == ev'.socket
             IN  (Has(rooms[r].participants, s) /\ rooms[r].leaderId # s)
                 => /\ Has(rooms', r) => ~Has(rooms'[r].participants, s)
                    /\ Has(rooms', r)
                       => \A p \in adapterRooms[r] \ {s} :
                            [to |-> p, type |-> "participant_left",
                             data |-> [participantId |-> s,
                                       participants |-> rooms'[r].participants,
                                       newLeaderId |-> rooms'[r].leaderId]] \in out']_vars
  /\ [](\A r \in DOMAIN rooms :
          /\ Participants(rooms, r) \cap closed = {}
          /\ rooms[r].leaderId \notin closed)

\* The last step was setMedia in the browser of the leader of the room it
\* has joined, and this step is a snapshot_request for that room.
SnapshotRightAfterSetMedia ==
  /\ ev.type = "setMedia"
  /\ LeaderGuard(ev.socket, client[ev.socket].room.roomId)
  /\ ev'.type = "snapshot_request"
  /\ ev'.roomId = client[ev.socket].room.roomId

\* C22 (refuted by the code): after the leader performs setMedia(kind, ref),
\* a snapshot requested immediately afterwards, before any further message of
\* the leader, returns isPlaying = false and leaderMediaTime = 0, whatever the
\* playback state was before.
C22_SetMediaResetsSnapshot ==
  [][SnapshotRightAfterSetMedia
     => /\ out' # {}
        /\ \A m \in out' : /\ m.type = "snapshot_response"
                           /\ m.data.isPlaying = FALSE
                           /\ m.data.leaderMediaTime = 0]_vars

\* This step handles a heartbeat or a control message of a socket that does
\* not lead the room it names.
FromNonLeader ==
  /\ ev'.type \in {"leader_state", "control"}
  /\ ~LeaderGuard(ev'.socket, ev'.roomId)

\* In this step the browser of s handles the message that takes the
\* leadership from it or closes its room, or it leaves its room.
ProcessesLoss(s) ==
  \/ /\ ev'.type = "receive" /\ ev'.socket = s
     /\ \/ /\ ev'.msg.type \in {"leader_changed", "participant_left"}
           /\ ev'.msg.data.newLeaderId # client[s].room.participantId
        \/ ev'.msg.type \in {"room_closed", "participant_kicked"}
  \/ /\ ev'.type \in {"leader_leave_room", "disconnect"} /\ ev'.socket = s

\* C24: a heartbeat or control message of a connection that does not (or no
\* longer) lead the room, also one its browser sent before it handled
\* leader_changed, changes no room and reaches no member; a browser sends
\* leader_state only while its store says it leads a room; and handling the
\* loss of the leadership or leaving the room makes the store say it does not.
C24_StaleLeaderSilenced ==
  [][/\ FromNonLeader
        => /\ rooms' = rooms
           /\ out' = {}
           /\ \A s \in SocketIds : client'[s].inbox = client[s].inbox
     /\ ev'.type = "leader_state"
        => /\ client[ev'.socket].room.isLeader
           /\ client[ev'.socket].room.roomId = ev'.roomId
     /\ \A s \in SocketIds : ProcessesLoss(s) => ~client'[s].room.isLeader]_vars

\* The browser of the former leader, which has leader_changed still waiting
\* in its inbox, sent a heartbeat: the server, whose room is led by another
\* participant, relayed nothing.
C24_Witness ==
  /\ ev.type = "leader_state"
  /\ client[ev.socket].room.isLeader
  /\ Has(rooms, ev.roomId)
  /\ rooms[ev.roomId].leaderId # ev.socket
  /\ Has(rooms[ev.roomId].participants, rooms[ev.roomId].leaderId)
  /\ Has(rooms[ev.roomId].participants, ev.socket)
  /\ client[ev.socket].inbox # << >>
  /\ Head(client[ev.socket].inbox).type = "leader_changed"
  /\ out = {}

\* C27 (refuted by the code): when a joinRoom call gets no response within
\* 30 seconds its promise resolves to false (failure reported to the caller),
\* and a response to that call arriving later is ignored: it changes nothing
\* of the room in the browser's store, which does not come to hold a room.
C27_LateResponseIgnored ==
  [][\A s \in SocketIds :
       /\ (ev'.type = "join_timeout" /\ ev'.socket = s)
          => /\ client[s].joins[ev'.callback].promise = "pending"
             /\ client'[s].joins[ev'.callback].promise = "false"
             /\ now >= ev'.callback.at + JoinTimeoutMs
       /\ (/\ ev'.type = "receive" /\ ev'.socket = s
           /\ ev'.msg.type = "join_ack"
           /\ Has(client[s].joins, ev'.msg.callback)
           /\ client[s].joins[ev'.msg.callback].promise = "false")
          => /\ client'[s].room = client[s].room
             /\ client'[s].joins[ev'.msg.callback].promise = "false"]_vars

\* The follower effect of this step ran its body while store and player both
\* play: the case of the drift correction.
CorrectionStep ==
  /\ ev'.type = "follower_sync" /\ ev'.ran
  /\ client[ev'.socket].room.isPlaying
  /\ client[ev'.socket].player.state = "playing"

SeeksOf(cmds) == SelectSeq(cmds, LAMBDA x : x.cmd = "seekTo")

\* C28 (refuted by the code): the expected position the follower effect
\* compares with the player's, when it runs on the sync_state just handled, is
\* leaderMediaTime + (localNow + offset - leaderServerTs) / 1000 when the
\* leader plays and leaderMediaTime when it is paused, for every offset.
C28_ExpectedPosition ==
  [][(/\ ev.type = "receive" /\ ev.msg.type = "sync_state"
      /\ ev'.type = "follower_sync" /\ ev'.socket = ev.socket /\ ev'.ran)
     => ev'.expected =
          LET c == client[ev.socket]
              d == ev.msg.data
          IN  IF d.isPlaying
              THEN Ms(d.leaderMediaTime)
                   + (LocalNow(c) + c.serverOffset - d.leaderServerTs)
              ELSE Ms(d.leaderMediaTime)]_vars

\* C29 (refuted by the code): with drift = actual - expected, the follower
\* issues no seek when |drift| <= 150 ms, and when 150 ms < |drift| < 500 ms
\* it issues one gentle seek, to actual - drift / 10, not a jump to expected.
C29_GentleCorrection ==
  [][CorrectionStep
     => LET drift == ev'.actual - ev'.expected
            seeks == SeeksOf(ev'.commands)
        IN  /\ Abs(drift) <= 150 => seeks = << >>
            /\ (150 < Abs(drift) /\ Abs(drift) < 500)
               => seeks = <<[cmd |-> "seekTo", time |-> ev'.actual - drift \div 10]>>]_vars

\* C30 (refuted by the code): when |drift| >= 500 ms, exactly 500 ms
\* included, the follower seeks directly to the expected position, and its
\* drift history is empty afterwards.
C30_DirectSeek ==
  [][CorrectionStep
     => LET drift == ev'.actual - ev'.expected
        IN  Abs(drift) >= 500
            => /\ SeeksOf(ev'.commands) = <<[cmd |-> "seekTo", time |-> ev'.expected]>>
               /\ client'[ev'.socket].player.currentTime = ev'.expected
               /\ client'[ev'.socket].driftHistory = << >>]_vars

\* ---------------------------------------------------------------- C31..C40

\* A step in which the browser ev'.socket seeks: its seek(time) as leader, a
\* control_update of type SEEK it handles, a seekTo of its follower effect, or
\* a seek by applyCorrectionIfNeeded.
SeekStep ==
  \/ ev'.type = "control" /\ ev'.msg.type = "SEEK"
  \/ /\ ev'.type = "receive" /\ ev'.msg.type = "control_update"
     /\ ev'.msg.data.type = "SEEK" /\ Has(ev'.msg.data, "toTime")
  \/ /\ ev'.type = "follower_sync" /\ ev'.ran
     /\ SeeksOf(ev'.commands) # << >>
  \/ ev'.type = "applyCorrectionIfNeeded" /\ ev'.seeks # << >>

\* C31 (refuted by the code): every explicit seek, a seek issued by
\* applyCorrectionIfNeeded included, leaves the drift history of the browser
\* that seeks empty.
C31_SeekResetsDriftHistory ==
  [][SeekStep => client'[ev'.socket].driftHistory = << >>]_vars

\* The commands of a kind that a pass of the follower effect issued.
Issued(cmds, kind) == SelectSeq(cmds, LAMBDA x : x.cmd = kind)

\* C32: in a pass of the follower effect, play is issued exactly when the
\* store says playing and the player neither plays nor buffers, pause exactly
\* when the store says paused and the player plays; a seek is issued only
\* when store and player both play, in a pass without play or pause.
C32_PlayStateBeforeDrift ==
  [][(ev'.type = "follower_sync" /\ ev'.ran)
     => LET c == client[ev'.socket]
            cmds == ev'.commands
        IN  /\ (Issued(cmds, "play") # << >>)
               <=> (c.room.isPlaying /\ c.player.state \notin {"playing", "buffering"})
            /\ (Issued(cmds, "pause") # << >>)
               <=> (~c.room.isPlaying /\ c.player.state = "playing")
            /\ (Issued(cmds, "seekTo") # << >>)
               => /\ c.room.isPlaying /\ c.player.state = "playing"
                  /\ Issued(cmds, "play") = << >>
                  /\ Issued(cmds, "pause") = << >>]_vars

\* A pass has started a player whose position is far from the expected one,
\* and has left the position alone.
C32_Witness ==
  /\ ev.type = "follower_sync" /\ ev.ran
  /\ ev.commands = <<[cmd |-> "play"]>>
  /\ Abs(ev.expected - ev.actual) > SeekThresholdMs

\* The last n elements of seq, oldest first.
LastN(seq, n) ==
  IF Len(seq) <= n THEN seq ELSE SubSeq(seq, Len(seq) - n + 1, Len(seq))

\* C33: the drift history never holds more than 10 samples; a call that
\* records a drift (recordDrift, applyCorrectionIfNeeded) leaves the last 10
\* of the earlier history followed by the new sample, and resetDriftHistory
\* leaves it empty: the history is the most recent samples since the last
\* reset, oldest first.
C33_DriftHistoryBounded ==
  [][/\ Len(client'[Follower].driftHistory) <= 10
     /\ ev'.type \in {"recordDrift", "applyCorrectionIfNeeded"}
        => client'[ev'.socket].driftHistory
             = LastN(client[ev'.socket].driftHistory \o <<ev'.drift>>, 10)
     /\ ev'.type = "resetDriftHistory"
        => client'[ev'.socket].driftHistory = << >>]_vars

\* The eleventh sample since the last reset has pushed the oldest one out.
C33_Witness ==
  /\ ev.type = "recordDrift" /\ ev.shifted
  /\ Len(client[Follower].driftHistory) = 10
  /\ client[Follower].driftHistory[10] = ev.drift
  /\ client[Follower].driftHistory[1] # ev.drift

\* C34: a probe sent at local time t0 that receives the server's timestamp
\* S at local time t1 stores the offset S + (t1 - t0)/2 - t1, so that
\* getServerTime(t1) = S + (t1 - t0)/2; a probe that fails leaves the offset
\* as it was.
C34_OffsetEstimate ==
  [][/\ ev'.type = "probe_done"
        => LET offset == client'[ev'.socket].serverOffset
           IN  /\ ev'.t1 = now - client[ev'.socket].skew
               /\ 2 * offset = 2 * ev'.S + (ev'.t1 - ev'.t0) - 2 * ev'.t1
               /\ 2 * getServerTime(ev'.t1, offset) = 2 * ev'.S + (ev'.t1 - ev'.t0)
     /\ ev'.type = "probe_failed"
        => client'[ev'.socket].serverOffset = client[ev'.socket].serverOffset]_vars

\* A probe that took 40 ms both ways has come back to a browser whose clock is
\* 300 ms behind, and the offset stored makes up for the 300 ms.
C34_Witness ==
  /\ ev.type = "probe_done" /\ ev.t1 - ev.t0 = 40
  /\ client[ev.socket].skew = 300
  /\ client[ev.socket].serverOffset = 300

\* The leader ev'.socket decides a request that is pending in its room and
\* whose requester is still connected.
DecidesPending ==
  /\ ev'.type \in {"approve_participant", "reject_participant"}
  /\ DecisionGuard(ev'.socket, ev'.roomId)
  /\ Has(rooms[ev'.roomId].pendingRequests, ev'.requestId)
  /\ Has(sockets, rooms[ev'.roomId].pendingRequests[ev'.requestId].socketId)

\* C35 (refuted by the code): deciding a pending request of a connected
\* requester answers the join_room call that made the request, the call for
\* that room at that time, with that room's state on approval and with the
\* rejection on reject, also when the requester has other requests pending.
C35_AckAnswersItsCall ==
  [][DecidesPending
     => LET request == rooms[ev'.roomId].pendingRequests[ev'.requestId]
            p == request.socketId
            acks == {m \in out' : m.type = "join_ack"}
        IN  /\ \E m \in acks : m.to = p
            /\ \A m \in acks :
                 /\ m.to = p
                 /\ m.callback = Callback(ev'.roomId, request.timestamp)
                 /\ m.data = IF ev'.type = "approve_participant"
                             THEN Joined(p, FALSE, rooms'[ev'.roomId])
                             ELSE ErrRejected]_vars

\* The leader ev'.socket kicks an id that is no participant of its room.
KicksOutsider ==
  /\ ev'.type = "kick_participant"
  /\ LeaderGuard(ev'.socket, ev'.roomId)
  /\ ev'.participantId # ev'.socket
  /\ ~Has(rooms[ev'.roomId].participants, ev'.participantId)

\* C36 (refuted by the code): a kick that names a connection which is no
\* participant of the leader's room changes nothing of the room and sends
\* nothing: no participant_kicked to the named connection, no participant_left
\* and no kick notification to the room.
C36_KickOfOutsiderIsNoOp ==
  [][KicksOutsider
     => /\ rooms'[ev'.roomId] = rooms[ev'.roomId]
        /\ adapterRooms' = adapterRooms
        /\ out' = {}]_vars

WaitingOn(r) ==
  IF Has(rooms, r) /\ Has(rooms[r], "pendingRequests")
  THEN {rooms[r].pendingRequests[q].socketId : q \in DOMAIN rooms[r].pendingRequests}
       \cap DOMAIN sockets'
  ELSE {}

\* C38 (refuted by the code): the step that destroys a room sends every
\* connection that has a join request pending for it a failed join
\* acknowledgment or room_closed.
C38_PendingAnsweredOnDestroy ==
  [][\A r \in AllRoomIds :
       (Has(rooms, r) /\ ~Has(rooms', r))
       => \A p \in WaitingOn(r) :
            \E m \in out' :
              /\ m.to = p
              /\ \/ m.type = "join_ack" /\ Has(m.data, "error")
                 \/ m.type = "room_closed"]_vars

\* Room id r gets a leader: there was no room of that id (or one without a
\* leader) before the step.
Founded(r) ==
  /\ ~Has(rooms, r) \/ rooms[r].leaderId = Null
  /\ Has(rooms', r) /\ rooms'[r].leaderId # Null

\* C39: a room made under an id starts as a new room object with its founder
\* alone: no media, not playing, position 0, no share tokens and no pending
\* requests, whatever an earlier room of that id held.  A join_room that
\* presents a token the present room has not issued admits nobody, and so
\* does an approve_participant for a request id not pending in the present
\* room.
C39_NothingOfEarlierRoom ==
  [][\A r \in RoomIds :
       /\ Founded(r)
          => /\ ev'.type = "join_room"
             /\ rooms'[r] = [NewRoom EXCEPT
                               !.leaderId = ev'.socket,
                               !.participants = Put(EmptyObj, ev'.socket, ev'.name)]
       /\ (/\ ev'.type = "join_room" /\ ev'.roomId = r /\ ev'.shareToken # NoArg
           /\ Has(rooms, r) /\ rooms[r].leaderId # Null
           /\ ~(Has(rooms[r], "shareTokens")
                /\ Has(rooms[r].shareTokens, ev'.shareToken)))
          => /\ Has(rooms', r)
             /\ rooms'[r].participants = rooms[r].participants
             /\ adapterRooms' = adapterRooms
       /\ (/\ ev'.type = "approve_participant" /\ ev'.roomId = r
           /\ Has(rooms, r)
           /\ ~(Has(rooms[r], "pendingRequests")
                /\ Has(rooms[r].pendingRequests, ev'.requestId)))
          => /\ Has(rooms', r)
             /\ rooms'[r].participants = rooms[r].participants
             /\ adapterRooms' = adapterRooms]_vars

\* The leader of a room that has never had a request approves the request id
\* of s2, which still holds the callback of the join it sent to an earlier
\* room of that id; s2 is not admitted.
C39_Witness ==
  /\ ev.type = "approve_participant" /\ ev.requestId = RequestId("s2", now)
  /\ Has(rooms, ev.roomId) /\ rooms[ev.roomId].leaderId = ev.socket
  /\ ~Has(rooms[ev.roomId], "pendingRequests")
  /\ Has(sockets, "s2") /\ Has(sockets["s2"], "joinCallback")
  /\ sockets["s2"].joinCallback.roomId = ev.roomId
  /\ ~Has(rooms[ev.roomId].participants, "s2")

\* C40 (refuted by the code): a snapshot_request for a registered room from a
\* connection that is no participant of it is answered, if at all, with
\* nothing of the room: no media state, no leader id, no participant list.
C40_SnapshotForMembersOnly ==
  [][(/\ ev'.type = "snapshot_request"
      /\ Has(rooms, ev'.roomId)
      /\ ~Has(rooms[ev'.roomId].participants, ev'.socket))
     => \A m \in out' :
          DOMAIN m.data \cap DOMAIN SnapshotOf(rooms[ev'.roomId]) = {}]_vars

====
